---- MODULE Spec2Model ----
(***************************************************************************)
(* NetShare transfer engine (src/network/transfer_manager.py, src/app.py). *)
(*                                                                         *)
(* One sending host runs TransferManager.send_files with its small-file    *)
(* thread and its chunk threads; one receiving host runs the handler of    *)
(* the control connection and the chunk listeners it starts.  Sizes are    *)
(* counted in scaled units (a unit stands for a block of bytes), a file's  *)
(* content is a sequence of numbers that differ in every position of every *)
(* file, so that a lost, repeated or misplaced byte is visible.            *)
(***************************************************************************)
EXTENDS Integers, Sequences, FiniteSets, TLC

\* ---------------------------------------------------------------- constants
BufSize        == 2   \* app.chunk_size, the buffer of one read/send (scaled)
SplitThreshold == 4   \* app.split_threshold (scaled)
MinChunkSize   == 2   \* min_chunk_size of _create_chunk_threads (scaled)
MaxThreads     == 4   \* app.max_threads
ThreadCap      == 4   \* the cap in min(self.app.max_threads, 4)
PoolSize       == 20  \* len(port_pool)
PrefixLen      == 4   \* the length prefix read by conn.recv(4)
MaxTotalSize   == 9  \* app.max_file_size, the limit of validate_files (scaled)

\* ------------------------------------------------------------------- bounds
MaxFiles   == 2       \* files in one selection

FileNames == {"a", "b"}
FileSizes == {2, 3, 5}

Min(a, b) == IF a < b THEN a ELSE b
Max(a, b) == IF a > b THEN a ELSE b

RECURSIVE SumSizes(_)
SumSizes(fs) == IF fs = <<>> THEN 0 ELSE Head(fs).size + SumSizes(Tail(fs))

\* file_size > self.app.split_threshold: the file goes over chunk connections
IsLarge_atThreshold(size) == size >= SplitThreshold
IsLarge(size) == size > SplitThreshold
RECURSIVE IndexSel(_, _, _)
\* the indices i >= from of fs whose file is large (large = TRUE) or small
IndexSel(fs, from, large) ==
    IF from > Len(fs) THEN <<>>
    ELSE IF IsLarge(fs[from].size) = large
         THEN <<from>> \o IndexSel(fs, from + 1, large)
         ELSE IndexSel(fs, from + 1, large)

VARIABLES
    files,          \* the sender's selected_files: sequence of [name, size]
    cfg,            \* the receiver's options [auto_accept, overwrite, subfolders]
    spc,            \* send_files: "start", "await", "stream", "done", "failed"
    confirmation,   \* what send_files read as confirmation ("none" before)
    sTask,          \* the small-file thread [pc, idx, sent]
    cTask,          \* the chunk threads, by <<file index, chunk id>>: [pc, remaining, err]
    sReg,           \* sender registries: active_transfers / transfer_locks / chunk_progress
    sStats,         \* [files, bytes]: total_files_sent, total_bytes_sent
    sHistory,       \* the sender's history records
    sWrote,         \* what the sender wrote on the control connection, in order
    c2r,            \* control connection, sender to receiver: items in flight
    c2rClosed,      \* the sender's end of the control connection is closed
    r2c,            \* control connection, receiver to sender
    r2cClosed,      \* the receiver closed the control connection
    rpc,            \* the receiver's control-connection handler
    rmeta,          \* the metadata the handler read
    decision,       \* the answer of ask_accept_transfer: "none", "yes", "no"
    rReg,           \* receiver registries for the transfer id of this connection
    rStats,         \* [files, bytes]: total_files_received, total_bytes_received
    rHistory,       \* the receiver's history records
    saveDir,        \* the directory _prepare_save_directory returned ("none" before)
    dirs,           \* directories created by os.makedirs
    disk,           \* the receiver's files: path -> bytes
    rfile,          \* the small file being received [name, path, size, received]
    received_files, \* _receive_small_files' list
    rWrote,         \* what the handler wrote on the control connection, in order
    lst,            \* the chunk listener of each modelled pool port
    wmeta,          \* the content of the metadata frame on the control connection
    peer,           \* a foreign peer on the control connection: [pc, idx]
    hTask,          \* the chunk handlers, by <<file index, chunk id>>
    cwire,          \* the chunk connections: bytes in flight to each handler
    cfile,          \* the chunk files: [linked, data]
    cancel_event,   \* the cancel_event of the sender's record: [set, sent], sent
                    \* being the progress counter when it was set
    now,            \* int(time.time()) on the receiving host
    conns,          \* the control connections of several peers: handler state
    regs,           \* transfer_locks and chunk_progress, by transfer id
    calc,           \* the inputs and results of _create_chunk_threads' arithmetic
    disc,           \* host discovery: probe, reply and the collected map
    fr,             \* the read of one length-prefixed frame from a connection
    lk,             \* a transfer's lock and the progress updates of its tasks
    pool,           \* the pool ports of a host with two transfers: listeners, chunks
    svc             \* the receive service: is_receiving, receiver_socket, threads

senderVars == <<spc, confirmation, sTask, cTask, sReg, sStats, sHistory, sWrote>>
wireVars   == <<c2r, c2rClosed, r2c, r2cClosed, wmeta>>
recvVars   == <<rpc, rmeta, decision, rReg, rStats, rHistory, saveDir, dirs,
                disk, rfile, received_files, rWrote, lst>>
chunkVars  == <<hTask, cwire, cfile>>
lateVars   == <<fr, lk, pool, svc>>
auxVars    == <<cancel_event, now, conns, regs, calc, disc, lateVars>>
vars == <<files, cfg, senderVars, wireVars, recvVars, peer, chunkVars, auxVars>>

\* ------------------------------------------------------------ file contents
Byte(i, k)      == 10 * i + k
Content(i)      == [k \in 1 .. files[i].size |-> Byte(i, k)]
\* f.read(n) with the file position at off
FileRead(i, off, n) == SubSeq(Content(i), off + 1, Min(off + n, files[i].size))

\* ------------------------------------------------------- send_files: analysis
SmallFiles == IndexSel(files, 1, FALSE)
LargeFiles == IndexSel(files, 1, TRUE)
TotalSize  == SumSizes(files)

Metadata ==
    [ total_files    |-> Len(files),
      total_size     |-> TotalSize,
      large_files    |-> Len(LargeFiles),
      small_files    |-> Len(SmallFiles),
      multi_threaded |-> TRUE,
      files          |-> <<>> ]

\* ------------------------------------------------------ _create_chunk_threads
\* num_threads for a configured max_threads: the setting is capped first
NumThreadsOf(max_threads, size) ==
    Min(Min(max_threads, ThreadCap), Max(1, size \div MinChunkSize))
NumThreads(size) == NumThreadsOf(MaxThreads, size)
\* the range of chunk c of n: chunk_size_per_thread, start_byte, end_byte
ChunkSizeOf(size, n) == size \div n
StartOf(size, n, c) == c * ChunkSizeOf(size, n)
EndOf_even(size, n, c) == StartOf(size, n, c) + ChunkSizeOf(size, n)
EndOf(size, n, c) ==
    IF c = n - 1 THEN size
    ELSE StartOf(size, n, c) + ChunkSizeOf(size, n)
ChunkSizePerThread(size) == ChunkSizeOf(size, NumThreads(size))
StartByte(size, c) == StartOf(size, NumThreads(size), c)
EndByte(size, c) == EndOf(size, NumThreads(size), c)
PortOf(c) == c % PoolSize

ChunkKeys ==
    { <<i, c>> \in (1 .. Len(files)) \X (0 .. (ThreadCap - 1)) :
        /\ files[i].size > SplitThreshold
        /\ c < NumThreads(files[i].size) }

\* the pool ports the chunk connections of this selection go to, and port 0:
\* the listeners of the other pool ports run the same code and meet no connection
Ports == {0} \cup { PortOf(k[2]) : k \in ChunkKeys }

\* ------------------------------------------------------------------- wire
Item(k, f, v) == [k |-> k, f |-> f, v |-> v]
MetaItem      == Item("meta", 0, 0)
DescItem(i)   == Item("desc", i, 0)
TokItem       == Item("tok", 0, 0)
RECURSIVE ByteItems(_)
ByteItems(bs) ==
    IF bs = <<>> THEN <<>> ELSE <<Item("byte", 0, Head(bs))>> \o ByteItems(Tail(bs))

NoTask   == [pc |-> "none", idx |-> 0, sent |-> 0]
NoChunk  == [pc |-> "none", remaining |-> 0, err |-> FALSE]
NoFile   == [name |-> "", path |-> <<>>, size |-> 0, received |-> 0, idx |-> 0]
NoPeer   == [pc |-> "none", idx |-> 0]
\* (sawAll is history: whether this handler's listing ran with every chunk file
\* of the file name written completely)
NoHandler   == [pc |-> "none", received |-> 0, list |-> <<>>, pos |-> 0, off |-> 0,
                sawAll |-> FALSE, err |-> FALSE]
NoChunkFile == [linked |-> FALSE, data |-> <<>>]
NoMeta   == [ total_files |-> 0, total_size |-> 0, large_files |-> 0,
              small_files |-> 0, multi_threaded |-> FALSE, files |-> <<>> ]


NoCalc   == [pc |-> "none", max_threads |-> 0, size |-> 0, threads |-> 0,
             ranges |-> <<>>, small |-> <<>>, large |-> <<>>, meta |-> NoMeta,
             actual |-> 0, small_bytes |-> 0, chunk_bytes |-> <<>>]
NoCancel == [set |-> FALSE, sent |-> 0]
NoRegs   == [locks |-> {}, progress |-> <<>>]
NoDisc   == [pc |-> "none"]
NoFr     == [pc |-> "none"]
NoLk     == [pc |-> "none"]
NoPool   == [pc |-> "none"]
NoSvc    == [pc |-> "none"]

\* the parts of the state a specification does not use are at rest
AuxIdle ==
    /\ cancel_event = NoCancel
    /\ now = 0
    /\ conns = <<>>
    /\ regs = NoRegs
    /\ calc = NoCalc
    /\ disc = NoDisc
    /\ fr = NoFr
    /\ lk = NoLk
    /\ pool = NoPool
    /\ svc = NoSvc

\* ------------------------------------------------------------------- Init
\* the selections validate_files lets through (total size within the limit);
\* names are taken up to renaming: the first file is called "a"
FileLists ==
    { fs \in UNION { [1 .. n -> [name : FileNames, size : FileSizes]] :
                        n \in 1 .. MaxFiles } :
        /\ SumSizes(fs) <= MaxTotalSize
        /\ fs[1].name = "a" }

\* app.send_files registered the transfer and started _send_files_wrapper; the
\* receiving host is in its accept loop with an empty save directory.
Init ==
    /\ files \in FileLists
    /\ cfg \in [auto_accept : BOOLEAN, overwrite : BOOLEAN, subfolders : BOOLEAN]
    /\ spc = "start"
    /\ confirmation = "none"
    /\ sTask = NoTask
    /\ cTask = [k \in ChunkKeys |-> NoChunk]
    /\ sReg = [active |-> TRUE, status |-> "Preparing", lock |-> FALSE,
               prog |-> FALSE, sent |-> 0, total |-> 0]
    /\ sStats = [files |-> 0, bytes |-> 0]
    /\ sHistory = <<>>
    /\ sWrote = <<>>
    /\ c2r = <<>>
    /\ c2rClosed = FALSE
    /\ r2c = <<>>
    /\ r2cClosed = FALSE
    /\ rpc = "accept"
    /\ rmeta = NoMeta
    /\ decision = "none"
    /\ rReg = [active |-> FALSE, lock |-> FALSE, prog |-> FALSE,
               received |-> 0, total |-> 0]
    /\ rStats = [files |-> 0, bytes |-> 0]
    /\ rHistory = <<>>
    /\ saveDir = "none"
    /\ dirs = {}
    /\ disk = <<>>
    /\ rfile = NoFile
    /\ received_files = <<>>
    /\ rWrote = <<>>
    /\ lst = [p \in Ports |-> "unstarted"]
    /\ wmeta = NoMeta
    /\ peer = NoPeer
    /\ hTask = [k \in ChunkKeys |-> NoHandler]
    /\ cwire = [k \in ChunkKeys |-> <<>>]
    /\ cfile = [k \in ChunkKeys |-> NoChunkFile]
    /\ AuxIdle

\* --------------------------------------------------------------- send_files
HistoryRec(direction, size, status) ==
    [direction |-> direction, size |-> size, status |-> status]

\* the except branch of send_files: a 'Send Failed' record of size 0; the
\* control socket, a local of send_files, is released on return
SendFailed_sized(msg) ==
    /\ spc' = "failed"
    /\ sHistory' = Append(sHistory, HistoryRec("Send Failed", TotalSize, msg))
    /\ c2rClosed' = TRUE
SendFailed(msg) ==
    /\ spc' = "failed"
    /\ sHistory' = Append(sHistory, HistoryRec("Send Failed", 0, msg))
    /\ c2rClosed' = TRUE

\* connect, then the length prefix and the metadata frame
S_Connect ==
    /\ spc = "start"
    /\ spc' = "await"
    /\ c2r' = Append(c2r, MetaItem)
    /\ sWrote' = Append(sWrote, "meta")
    /\ wmeta' = Metadata
    /\ UNCHANGED <<files, cfg, auxVars, peer, chunkVars, confirmation, sTask, cTask, sReg, sStats, sHistory,
                   c2rClosed, r2c, r2cClosed, recvVars>>

\* main_sock.recv(1024) runs into the socket timeout
S_Timeout ==
    /\ spc = "await"
    /\ r2c = <<>>
    /\ ~r2cClosed
    /\ SendFailed("timed out")
    /\ UNCHANGED <<files, cfg, auxVars, peer, chunkVars, confirmation, sTask, cTask, sReg, sStats, sWrote,
                   c2r, r2c, r2cClosed, wmeta, recvVars>>

\* what the threads start from once READY was read
StartedSmall ==
    IF SmallFiles # <<>> THEN [pc |-> "desc", idx |-> 1, sent |-> 0] ELSE NoTask
StartedChunks ==
    [k \in ChunkKeys |->
        [pc |-> "connect",
         remaining |-> EndByte(files[k[1]].size, k[2]) - StartByte(files[k[1]].size, k[2]),
         err |-> FALSE]]
Proceeds_always(conf) == TRUE
Proceeds(conf) == conf = "READY"

\* confirmation = main_sock.recv(1024).decode(); anything but READY raises;
\* READY initialises the progress entry and starts the small-file thread and
\* the chunk threads of every large file
S_Confirm ==
    /\ spc = "await"
    /\ r2c # <<>> \/ r2cClosed
    /\ LET conf == IF r2c # <<>> THEN Head(r2c) ELSE "" IN
       /\ confirmation' = conf
       /\ r2c' = IF r2c # <<>> THEN Tail(r2c) ELSE r2c
       /\ IF Proceeds(conf)
          THEN /\ spc' = "stream"
               /\ sReg' = [sReg EXCEPT !.lock = TRUE, !.prog = TRUE,
                                       !.sent = 0, !.total = TotalSize]
               /\ sTask' = StartedSmall
               /\ cTask' = StartedChunks
               /\ UNCHANGED <<sHistory, c2rClosed>>
          ELSE /\ SendFailed("Receiver not ready for multi-threaded transfer")
               /\ UNCHANGED <<sReg, sTask, cTask>>
    /\ UNCHANGED <<files, cfg, auxVars, peer, chunkVars, sStats, sWrote, c2r, r2cClosed, wmeta, recvVars>>

\* thread.join() of every thread of transfer_threads has returned
TasksDone_chunksonly == \A k \in ChunkKeys : cTask[k].pc = "done"
TasksDone_unjoined == TRUE
TasksDone ==
    /\ sTask.pc \in {"none", "done"}
    /\ \A k \in ChunkKeys : cTask[k].pc = "done"

\* the joins, then TRANSFER_COMPLETE, close, the statistics and the history
S_Complete ==
    /\ spc = "stream"
    /\ TasksDone
    /\ spc' = "done"
    /\ c2r' = Append(c2r, TokItem)
    /\ sWrote' = Append(sWrote, "tok")
    /\ c2rClosed' = TRUE
    /\ sStats' = [files |-> sStats.files + Len(files),
                  bytes |-> sStats.bytes + TotalSize]
    /\ sHistory' = Append(sHistory, HistoryRec("Sent", TotalSize, "Success"))
    /\ UNCHANGED <<files, cfg, auxVars, peer, chunkVars, confirmation, sTask, cTask, sReg, r2c, r2cClosed, wmeta,
                   recvVars>>

\* --------------------------------------------------------- _send_small_files
NextSmall_nodesc(idx) ==
    IF idx < Len(SmallFiles) THEN [pc |-> "data", idx |-> idx + 1, sent |-> 0]
    ELSE [pc |-> "done", idx |-> idx, sent |-> 0]
NextSmall(idx) ==
    IF idx < Len(SmallFiles) THEN [pc |-> "desc", idx |-> idx + 1, sent |-> 0]
    ELSE [pc |-> "done", idx |-> idx, sent |-> 0]

\* the descriptor frame of the next small file, then open()
SmallSendDesc ==
    /\ sTask.pc = "desc"
    /\ LET i == SmallFiles[sTask.idx] IN
       /\ c2r' = Append(c2r, DescItem(i))
       /\ sWrote' = Append(sWrote, "desc")
       /\ sTask' = IF files[i].size > 0
                   THEN [sTask EXCEPT !.pc = "data", !.sent = 0]
                   ELSE NextSmall(sTask.idx)
    /\ UNCHANGED <<files, cfg, auxVars, peer, chunkVars, spc, confirmation, cTask, sReg, sStats, sHistory,
                   c2rClosed, wmeta, r2c, r2cClosed, recvVars>>

\* sock.send(data) on a socket with a timeout (a non-blocking descriptor) passes
\* between one byte and all of data to the connection and returns the count
SendCounts(data) == 1 .. Len(data)

\* one turn of the loop: f.read(chunk_size), sock.send (its return value is not
\* looked at: len(chunk) is what is counted), the progress update
SmallSendBuf ==
    /\ sTask.pc = "data"
    /\ LET i     == SmallFiles[sTask.idx]
           chunk == FileRead(i, sTask.sent, BufSize)
           sent  == sTask.sent + Len(chunk)
       IN
       /\ \E n \in SendCounts(chunk) : c2r' = c2r \o ByteItems(SubSeq(chunk, 1, n))
       /\ sWrote' = Append(sWrote, "data")
       /\ sReg' = [sReg EXCEPT !.sent = sReg.sent + Len(chunk)]
       /\ sTask' = IF sent < files[i].size /\ chunk # <<>>
                   THEN [sTask EXCEPT !.sent = sent]
                   ELSE NextSmall(sTask.idx)
    /\ UNCHANGED <<files, cfg, auxVars, peer, chunkVars, spc, confirmation, cTask, sStats, sHistory,
                   c2rClosed, wmeta, r2c, r2cClosed, recvVars>>

\* ----------------------------------------------------------- _send_file_chunk
\* a send on a chunk connection whose listener is gone may still succeed (the
\* reset has not arrived) or raise
SendOutcomes(port) == IF lst[port] = "listening" THEN {TRUE} ELSE BOOLEAN

\* sock.connect((host, port)), refused unless a listener is bound on the port,
\* then the chunk descriptor frame
ChunkConnect_raises(k) ==
    /\ cTask[k].pc = "connect"
    /\ IF lst[PortOf(k[2])] = "listening"
       THEN /\ cTask' = [cTask EXCEPT ![k] = [@ EXCEPT !.pc = "data"]]
            /\ UNCHANGED <<spc, sHistory, c2rClosed>>
       ELSE /\ cTask' = [cTask EXCEPT ![k] = [@ EXCEPT !.pc = "done", !.err = TRUE]]
            /\ SendFailed("Connection refused")
    /\ UNCHANGED <<files, cfg, auxVars, peer, chunkVars, confirmation, sTask, sReg, sStats,
                   sWrote, c2r, r2c, r2cClosed, wmeta, recvVars>>
ChunkConnect(k) ==
    /\ cTask[k].pc = "connect"
    /\ cTask' = [cTask EXCEPT ![k] =
                    IF lst[PortOf(k[2])] = "listening"
                    THEN [@ EXCEPT !.pc = "data"]
                    ELSE [@ EXCEPT !.pc = "done", !.err = TRUE]]
    /\ UNCHANGED <<files, cfg, auxVars, peer, chunkVars, spc, confirmation, sTask, sReg, sStats, sHistory,
                   sWrote, wireVars, recvVars>>

\* one turn of the loop: read min(chunk_size, remaining), send, progress update;
\* sock.close() after the last one
ChunkSendBuf(k) ==
    /\ cTask[k].pc = "data"
    /\ \E ok \in SendOutcomes(PortOf(k[2])) :
          LET n == Min(BufSize, cTask[k].remaining) IN
          IF ok
          THEN /\ cTask' = [cTask EXCEPT ![k] =
                              [@ EXCEPT !.remaining = @ - n,
                                        !.pc = IF cTask[k].remaining - n > 0
                                               THEN "data" ELSE "done"]]
               /\ sReg' = [sReg EXCEPT !.sent = sReg.sent + n]
          ELSE /\ cTask' = [cTask EXCEPT ![k] = [@ EXCEPT !.pc = "done", !.err = TRUE]]
               /\ UNCHANGED sReg
    /\ UNCHANGED <<files, cfg, auxVars, peer, chunkVars, spc, confirmation, sTask, sStats, sHistory,
                   sWrote, wireVars, recvVars>>


\* =============================================================== receiver
\* ------------------------------------------------- _prepare_save_directory
BaseDir  == "save"
BatchDir == "batch"
UsesBatch(file_count) == cfg.subfolders /\ file_count > 1
PreparedDir(file_count) == IF UsesBatch(file_count) THEN BatchDir ELSE BaseDir

\* ---------------------------------------------------- _get_unique_filename
\* a path is <<directory, name, counter>>; counter 0 is the name as sent,
\* counter n > 0 is base_n.ext
Exists(path) == path \in DOMAIN disk
RECURSIVE FreeCounter(_, _, _)
FreeCounter(dir, name, n) ==
    IF Exists(<<dir, name, n>>) THEN FreeCounter(dir, name, n + 1) ELSE n
UniqueFilename(dir, name) ==
    IF ~cfg.overwrite /\ Exists(<<dir, name, 0>>)
    THEN <<dir, name, FreeCounter(dir, name, 1)>>
    ELSE <<dir, name, 0>>

\* ------------------------------------------------------ _get_received_files
ReceivedFiles(dir) == { p \in DOMAIN disk : p[1] = dir }
\* the chunk files of the directory: "<name>.chunk_<id>" does not start with
\* ".chunk_", so the listing keeps them
LeftoverChunks == { k \in ChunkKeys : cfile[k].linked }

\* the finally blocks: the registry entries of the transfer id are deleted and
\* the control connection is closed
Cleanup ==
    /\ rReg' = [rReg EXCEPT !.active = FALSE, !.lock = FALSE, !.prog = FALSE]
    /\ r2cClosed' = TRUE
    /\ rpc' = "closed"

\* ------------------------------------------------------------ _receive_files
\* accept() returns the pending control connection; its handler thread starts
R_Accept ==
    /\ rpc = "accept"
    /\ spc # "start"
    /\ rpc' = "readmeta"
    /\ UNCHANGED <<files, cfg, auxVars, peer, chunkVars, senderVars, wireVars, rmeta, decision, rWrote, rReg, rStats,
                   rHistory, saveDir, dirs, disk, rfile, received_files, lst>>

\* ------------------------------------------------ _handle_multi_file_connection
AfterMeta(meta) ==
    IF meta.multi_threaded
    THEN IF cfg.auto_accept THEN "sendready" ELSE "ask"
    ELSE "single"

\* the length prefix and the metadata frame; a closed, empty connection makes
\* json.loads raise
R_ReadMeta ==
    /\ rpc = "readmeta"
    /\ c2r # <<>> \/ c2rClosed
    /\ IF c2r # <<>> /\ Head(c2r).k = "meta"
       THEN /\ rmeta' = wmeta
            /\ c2r' = Tail(c2r)
            /\ rpc' = AfterMeta(wmeta)
            /\ UNCHANGED <<rReg, r2cClosed>>
       ELSE /\ Cleanup
            /\ UNCHANGED <<rmeta, c2r>>
    /\ UNCHANGED <<files, cfg, auxVars, peer, chunkVars, senderVars, c2rClosed, wmeta, r2c, decision, rWrote, rStats,
                   rHistory, saveDir, dirs, disk, rfile, received_files, lst>>

\* --------------------------------------------- _handle_multi_threaded_transfer
AfterAnswer_ignored(accept) == "sendready"
AfterAnswer(accept) == IF accept THEN "sendready" ELSE "rejected"

\* ask_accept_transfer returns; a refusal writes REJECTED and returns through
\* the finally blocks
R_Ask ==
    /\ rpc = "ask"
    /\ \E accept \in BOOLEAN :
          /\ decision' = IF accept THEN "yes" ELSE "no"
          /\ IF AfterAnswer(accept) = "rejected"
             THEN /\ r2c' = Append(r2c, "REJECTED")
                  /\ rWrote' = Append(rWrote, "REJECTED")
                  /\ Cleanup
             ELSE /\ rpc' = AfterAnswer(accept)
                  /\ UNCHANGED <<r2c, r2cClosed, rReg, rWrote>>
    /\ UNCHANGED <<files, cfg, auxVars, peer, chunkVars, senderVars, c2r, c2rClosed, wmeta, rmeta, rStats, rHistory,
                   saveDir, dirs, disk, rfile, received_files, lst>>

\* conn.send(b"READY")
R_SendReady ==
    /\ rpc = "sendready"
    /\ r2c' = Append(r2c, "READY")
    /\ rWrote' = Append(rWrote, "READY")
    /\ rpc' = "prepare"
    /\ UNCHANGED <<files, cfg, auxVars, peer, chunkVars, senderVars, c2r, c2rClosed, wmeta, r2cClosed, rmeta, decision,
                   rReg, rStats, rHistory, saveDir, dirs, disk, rfile,
                   received_files, lst>>

\* the progress entry, _prepare_save_directory and _start_chunk_listeners
R_Prepare ==
    /\ rpc = "prepare"
    /\ rReg' = [rReg EXCEPT !.lock = TRUE, !.prog = TRUE, !.received = 0,
                            !.total = rmeta.total_size]
    /\ saveDir' = PreparedDir(rmeta.total_files)
    /\ dirs' = IF UsesBatch(rmeta.total_files) THEN dirs \cup {BatchDir} ELSE dirs
    /\ lst' = [p \in Ports |-> "started"]
    /\ rpc' = IF rmeta.small_files > 0 THEN "frame" ELSE "completion"
    /\ UNCHANGED <<files, cfg, auxVars, peer, chunkVars, senderVars, wireVars, rmeta, decision, rWrote, rStats,
                   rHistory, disk, rfile, received_files>>

\* ------------------------------------------------------- _receive_small_files
ReceivedRec(f) == [name |-> f.name, path |-> f.path, size |-> f.size]

\* what a frame read leaves of a connection whose head is no whole frame: the
\* four bytes read as the length prefix are gone, and the body read, of a length
\* made of those bytes, takes what has arrived (or cannot allocate its buffer
\* and takes nothing)
AfterBadFrame(q, bodyRead) ==
    IF bodyRead THEN <<>>
    ELSE IF Head(q).k = "byte" THEN SubSeq(q, Min(PrefixLen, Len(q)) + 1, Len(q))
    ELSE <<Item(Head(q).k, Head(q).f, Head(q).v + PrefixLen)>> \o Tail(q)

\* the head of the loop: conn.recv(4) and conn.recv(metadata_size).  A small-file
\* descriptor opens the destination file.  Anything else (the bytes of
\* TRANSFER_COMPLETE, the rest of a frame whose first bytes were read as file
\* data) is read as a length prefix and a body that is not JSON; a closed, empty
\* connection gives length 0.  Both leave the loop.
R_ReadFrame ==
    /\ rpc = "frame"
    /\ c2r # <<>> \/ c2rClosed
    /\ IF c2r = <<>>
       THEN /\ rpc' = "completion"
            /\ UNCHANGED <<c2r, disk, rfile, received_files>>
       ELSE IF Head(c2r).k = "desc" /\ Head(c2r).v = 0
       THEN LET i    == Head(c2r).f
                path == UniqueFilename(saveDir, files[i].name)
                f    == [name |-> files[i].name, path |-> path,
                         size |-> files[i].size, received |-> 0, idx |-> 0]
            IN
            /\ c2r' = Tail(c2r)
            /\ disk' = (path :> <<>>) @@ disk
            /\ IF f.size > 0
               THEN /\ rfile' = f
                    /\ rpc' = "data"
                    /\ UNCHANGED received_files
               ELSE /\ rfile' = NoFile
                    /\ rpc' = "frame"
                    /\ received_files' = Append(received_files, ReceivedRec(f))
       ELSE /\ \E bodyRead \in BOOLEAN : c2r' = AfterBadFrame(c2r, bodyRead)
            /\ rpc' = "completion"
            /\ UNCHANGED <<disk, rfile, received_files>>
    /\ UNCHANGED <<files, cfg, auxVars, peer, chunkVars, senderVars, c2rClosed, wmeta, r2c, r2cClosed, rmeta, decision, rWrote,
                   rReg, rStats, rHistory, saveDir, dirs, lst>>

\* a raw read of up to n bytes: <<the bytes read, the connection afterwards>>.
\* Raw bytes are read as they are; the bytes of a frame or of the token at the
\* head are read as well (Garbage stands for each), and the frame, longer than
\* any file of the model, stays with its first bytes gone.
Garbage == Byte(0, 0)
RECURSIVE RawRead(_, _)
RawRead(q, n) ==
    IF n = 0 \/ q = <<>> THEN <<<<>>, q>>
    ELSE IF Head(q).k = "byte"
         THEN LET rest == RawRead(Tail(q), n - 1)
              IN <<<<Head(q).v>> \o rest[1], rest[2]>>
         ELSE <<[x \in 1 .. n |-> Garbage],
                <<Item(Head(q).k, Head(q).f, Head(q).v + n)>> \o Tail(q)>>

RecvLimit(remaining) == Min(BufSize, remaining)

\* one turn of the inner loop: conn.recv(min(chunk_size, remaining)) returns
\* between one byte and what is there, f.write, the progress update; an empty
\* read (connection closed) leaves the loop
R_RecvData ==
    /\ rpc = "data"
    /\ \/ /\ c2r # <<>>
          /\ \E n \in 1 .. RecvLimit(rfile.size - rfile.received) :
                LET rd  == RawRead(c2r, n)
                    got == rfile.received + n
                IN
                /\ Len(rd[1]) = n
                /\ c2r' = rd[2]
                /\ disk' = [disk EXCEPT ![rfile.path] = @ \o rd[1]]
                /\ rReg' = [rReg EXCEPT !.received = @ + n]
                /\ IF got < rfile.size
                   THEN /\ rfile' = [rfile EXCEPT !.received = got]
                        /\ rpc' = "data"
                        /\ UNCHANGED received_files
                   ELSE /\ rfile' = NoFile
                        /\ rpc' = "frame"
                        /\ received_files' = Append(received_files, ReceivedRec(rfile))
       \/ /\ c2r = <<>>
          /\ c2rClosed
          /\ rfile' = NoFile
          /\ rpc' = "frame"
          /\ received_files' = Append(received_files, ReceivedRec(rfile))
          /\ UNCHANGED <<c2r, disk, rReg>>
    /\ UNCHANGED <<files, cfg, auxVars, peer, chunkVars, senderVars, c2rClosed, wmeta, r2c, r2cClosed, rmeta, decision, rWrote,
                   rStats, rHistory, saveDir, dirs, lst>>

\* ------------------------------- _handle_multi_threaded_transfer, completion
\* conn.recv(1024) returns what is at the head of the connection; it equals
\* b"TRANSFER_COMPLETE" when that is the whole, untouched token
IsCompletion(q) == q # <<>> /\ Head(q).k = "tok" /\ Head(q).v = 0

\* the completion read, the statistics and the history record of a completed
\* transfer, then the cleanup of the finally blocks
R_Completion ==
    /\ rpc = "completion"
    /\ c2r # <<>> \/ c2rClosed
    /\ IF IsCompletion(c2r)
       THEN /\ rStats' = [files |-> rStats.files + Cardinality(ReceivedFiles(saveDir))
                                                  + Cardinality(LeftoverChunks),
                          bytes |-> rStats.bytes + rmeta.total_size]
            /\ rHistory' = Append(rHistory,
                                  HistoryRec("Received", rmeta.total_size, "Success"))
       ELSE UNCHANGED <<rStats, rHistory>>
    /\ c2r' = <<>>
    /\ Cleanup
    /\ UNCHANGED <<files, cfg, auxVars, peer, chunkVars, senderVars, c2rClosed, wmeta, r2c, rmeta, decision, rWrote,
                   saveDir, dirs, disk, rfile, received_files, lst>>

\* ------------------------------------------------------------ _chunk_listener
\* bind and listen on the pool port
L_Bind(p) ==
    /\ lst[p] = "started"
    /\ lst' = [lst EXCEPT ![p] = "listening"]
    /\ UNCHANGED <<files, cfg, auxVars, peer, chunkVars, senderVars, wireVars, rpc, rmeta, decision, rWrote, rReg,
                   rStats, rHistory, saveDir, dirs, disk, rfile, received_files>>

\* the loop test `transfer_id in self.app.active_transfers`: the receive
\* transfer id is in no registry, the loop is left and the socket closed
L_Loop(p) ==
    /\ lst[p] = "listening"
    /\ ~rReg.active
    /\ lst' = [lst EXCEPT ![p] = "closed"]
    /\ UNCHANGED <<files, cfg, auxVars, peer, chunkVars, senderVars, wireVars, rpc, rmeta, decision, rWrote, rReg,
                   rStats, rHistory, saveDir, dirs, disk, rfile, received_files>>

\* ---------------------------------------------------------------- Spec
Next ==
    \/ S_Connect
    \/ S_Timeout
    \/ S_Confirm
    \/ S_Complete
    \/ SmallSendDesc
    \/ SmallSendBuf
    \/ \E k \in ChunkKeys : ChunkConnect(k)
    \/ \E k \in ChunkKeys : ChunkSendBuf(k)
    \/ R_Accept
    \/ R_ReadMeta
    \/ R_Ask
    \/ R_SendReady
    \/ R_Prepare
    \/ R_ReadFrame
    \/ R_RecvData
    \/ R_Completion
    \/ \E p \in Ports : L_Bind(p)
    \/ \E p \in Ports : L_Loop(p)

Spec == Init /\ [][Next]_vars

\* ========================================== a peer that is not send_files
\* ------------------------------------------ _handle_single_threaded_transfer
\* the function up to its loop: _prepare_save_directory, the lock and progress
\* entries, conn.send(b"READY").  ask_accept_transfer is not called on this path.
R_SinglePrepare ==
    /\ rpc = "single"
    /\ saveDir' = PreparedDir(rmeta.total_files)
    /\ dirs' = IF UsesBatch(rmeta.total_files) THEN dirs \cup {BatchDir} ELSE dirs
    /\ rReg' = [rReg EXCEPT !.lock = TRUE, !.prog = TRUE, !.received = 0,
                            !.total = rmeta.total_size]
    /\ r2c' = Append(r2c, "READY")
    /\ rWrote' = Append(rWrote, "READY")
    /\ rfile' = [NoFile EXCEPT !.idx = 1]
    /\ rpc' = "singlefile"
    /\ UNCHANGED <<files, cfg, auxVars, peer, chunkVars, senderVars, c2r, c2rClosed, wmeta, r2cClosed,
                   rmeta, decision, rStats, rHistory, disk, received_files, lst>>

\* the head of the for loop: dest is save_dir joined with the name as sent and
\* is opened 'wb' (an existing file is truncated).  After the last file: the
\* counters, the 'Received'/'Success' record and the finally block.
R_SingleFile ==
    /\ rpc = "singlefile"
    /\ IF rfile.idx <= Len(rmeta.files)
       THEN LET m    == rmeta.files[rfile.idx]
                dest == <<saveDir, m.name, 0>>
            IN
            /\ disk' = (dest :> <<>>) @@ disk
            /\ rfile' = [name |-> m.name, path |-> dest, size |-> m.size,
                         received |-> 0, idx |-> rfile.idx + (IF m.size > 0 THEN 0 ELSE 1)]
            /\ rpc' = IF m.size > 0 THEN "singledata" ELSE "singlefile"
            /\ UNCHANGED <<rStats, rHistory, rReg, r2cClosed>>
       ELSE /\ rStats' = [files |-> rStats.files + Len(rmeta.files),
                          bytes |-> rStats.bytes + rmeta.total_size]
            /\ rHistory' = Append(rHistory,
                                  HistoryRec("Received", rmeta.total_size, "Success"))
            /\ Cleanup
            /\ UNCHANGED <<disk, rfile>>
    /\ UNCHANGED <<files, cfg, auxVars, peer, chunkVars, senderVars, c2r, c2rClosed, wmeta, r2c, rmeta,
                   decision, rWrote, saveDir, dirs, received_files, lst>>

\* one turn of the while loop: conn.recv(min(chunk_size, remaining)), f.write,
\* the progress update; an empty read (connection closed) leaves the loop
R_SingleRecv ==
    /\ rpc = "singledata"
    /\ \/ /\ c2r # <<>>
          /\ \E n \in 1 .. RecvLimit(rfile.size - rfile.received) :
                LET rd  == RawRead(c2r, n)
                    got == rfile.received + n
                IN
                /\ Len(rd[1]) = n
                /\ c2r' = rd[2]
                /\ disk' = [disk EXCEPT ![rfile.path] = @ \o rd[1]]
                /\ rReg' = [rReg EXCEPT !.received = @ + n]
                /\ IF got < rfile.size
                   THEN /\ rfile' = [rfile EXCEPT !.received = got]
                        /\ rpc' = "singledata"
                   ELSE /\ rfile' = [rfile EXCEPT !.received = got, !.idx = @ + 1]
                        /\ rpc' = "singlefile"
       \/ /\ c2r = <<>>
          /\ c2rClosed
          /\ rfile' = [rfile EXCEPT !.idx = @ + 1]
          /\ rpc' = "singlefile"
          /\ UNCHANGED <<c2r, disk, rReg>>
    /\ UNCHANGED <<files, cfg, auxVars, peer, chunkVars, senderVars, c2rClosed, wmeta, r2c, r2cClosed,
                   rmeta, decision, rWrote, rStats, rHistory, saveDir, dirs,
                   received_files, lst>>

\* --------------------------------------------------------------- the peer
\* the metadata frames of a peer holding `files`: multi_threaded false (or
\* absent: metadata.get('multi_threaded', False)) with the list 'files', or
\* multi_threaded true announcing no small file
PeerMetadata(fs, mt) ==
    [ total_files    |-> Len(fs),
      total_size     |-> SumSizes(fs),
      large_files    |-> IF mt THEN Len(fs) ELSE 0,
      small_files    |-> 0,
      multi_threaded |-> mt,
      files          |-> IF mt THEN <<>> ELSE fs ]

\* the peer writes the bytes of its next file, whatever the receiver answered
P_SendFile ==
    /\ peer.pc = "send"
    /\ peer.idx <= Len(files)
    /\ ~c2rClosed
    /\ c2r' = c2r \o ByteItems(Content(peer.idx))
    /\ peer' = [peer EXCEPT !.idx = @ + 1]
    /\ UNCHANGED <<files, cfg, auxVars, chunkVars, senderVars, c2rClosed, wmeta, r2c, r2cClosed, recvVars>>

\* the peer closes its end of the connection
P_Close ==
    /\ peer.pc = "send"
    /\ ~c2rClosed
    /\ c2rClosed' = TRUE
    /\ peer' = [peer EXCEPT !.pc = "closed"]
    /\ UNCHANGED <<files, cfg, auxVars, chunkVars, senderVars, c2r, wmeta, r2c, r2cClosed, recvVars>>

\* the receiving host in its accept loop, the peer connected and its metadata
\* frame on the connection
InitPeer ==
    /\ files \in FileLists
    /\ cfg \in [auto_accept : BOOLEAN, overwrite : BOOLEAN, subfolders : BOOLEAN]
    /\ spc = "peer"
    /\ confirmation = "none"
    /\ sTask = NoTask
    /\ cTask = [k \in ChunkKeys |-> NoChunk]
    /\ sReg = [active |-> FALSE, status |-> "none", lock |-> FALSE,
               prog |-> FALSE, sent |-> 0, total |-> 0]
    /\ sStats = [files |-> 0, bytes |-> 0]
    /\ sHistory = <<>>
    /\ sWrote = <<>>
    /\ \E mt \in BOOLEAN : wmeta = PeerMetadata(files, mt)
    /\ c2r = <<MetaItem>>
    /\ c2rClosed = FALSE
    /\ r2c = <<>>
    /\ r2cClosed = FALSE
    /\ rpc = "accept"
    /\ rmeta = NoMeta
    /\ decision = "none"
    /\ rReg = [active |-> FALSE, lock |-> FALSE, prog |-> FALSE,
               received |-> 0, total |-> 0]
    /\ rStats = [files |-> 0, bytes |-> 0]
    /\ rHistory = <<>>
    /\ saveDir = "none"
    /\ dirs = {}
    /\ disk = <<>>
    /\ rfile = NoFile
    /\ received_files = <<>>
    /\ rWrote = <<>>
    /\ lst = [p \in Ports |-> "unstarted"]
    /\ peer = [pc |-> "send", idx |-> 1]
    /\ hTask = [k \in ChunkKeys |-> NoHandler]
    /\ cwire = [k \in ChunkKeys |-> <<>>]
    /\ cfile = [k \in ChunkKeys |-> NoChunkFile]
    /\ AuxIdle

NextPeer ==
    \/ P_SendFile
    \/ P_Close
    \/ R_Accept
    \/ R_ReadMeta
    \/ R_Ask
    \/ R_SendReady
    \/ R_Prepare
    \/ R_Completion
    \/ R_SinglePrepare
    \/ R_SingleFile
    \/ R_SingleRecv
    \/ \E p \in Ports : L_Bind(p)
    \/ \E p \in Ports : L_Loop(p)

SpecPeer == InitPeer /\ [][NextPeer]_vars

\* ================================ the chunk handlers, their connections accepted
\* --------------------------------------------------------- _receive_file_chunk
\* the bytes the chunk thread of k sends: the range [start_byte, end_byte)
ChunkData(k) ==
    SubSeq(Content(k[1]), StartByte(files[k[1]].size, k[2]) + 1,
           EndByte(files[k[1]].size, k[2]))
ChunkLen(k) == EndByte(files[k[1]].size, k[2]) - StartByte(files[k[1]].size, k[2])

\* the chunk descriptor frame, then open(chunk_file_path, 'wb')
H_Desc(k) ==
    /\ hTask[k].pc = "desc"
    /\ cfile' = [cfile EXCEPT ![k] = [linked |-> TRUE, data |-> <<>>]]
    /\ hTask' = [hTask EXCEPT ![k] = [@ EXCEPT !.pc = "data"]]
    /\ UNCHANGED <<files, cfg, auxVars, peer, senderVars, wireVars, recvVars, cwire>>

\* one turn of the loop: conn.recv(min(chunk_size, remaining)), f.write (to the
\* open file, also when its name has been removed), the progress update; the
\* file is closed after the last one. With the transfer's lock deleted,
\* transfer_locks[transfer_id] raises KeyError after the write: the except of
\* _receive_file_chunk reports it and the reassembly check is not reached
H_Recv(k) ==
    /\ hTask[k].pc = "data"
    /\ cwire[k] # <<>>
    /\ \E n \in 1 .. Min(RecvLimit(ChunkLen(k) - hTask[k].received), Len(cwire[k])) :
          /\ cfile' = [cfile EXCEPT ![k].data = @ \o SubSeq(cwire[k], 1, n)]
          /\ cwire' = [cwire EXCEPT ![k] = SubSeq(@, n + 1, Len(@))]
          /\ IF rReg.lock
             THEN /\ rReg' = [rReg EXCEPT !.received = @ + n]
                  /\ hTask' = [hTask EXCEPT ![k] =
                          [@ EXCEPT !.received = @ + n,
                                    !.pc = IF hTask[k].received + n < ChunkLen(k)
                                           THEN "data" ELSE "list"]]
             ELSE /\ rReg' = rReg
                  /\ hTask' = [hTask EXCEPT ![k] =
                          [@ EXCEPT !.received = @ + n, !.err = TRUE,
                                    !.pc = "done"]]
    /\ UNCHANGED <<files, cfg, auxVars, peer, senderVars, wireVars, rpc, rmeta, decision, rStats,
                   rHistory, saveDir, dirs, disk, rfile, received_files, rWrote, lst>>

\* ---------------------------------------------------- _check_and_reassemble_file
\* the ids, in order, of the ids in S
RECURSIVE SortedIds(_)
SortedIds(S) ==
    IF S = {} THEN <<>>
    ELSE LET m == CHOOSE x \in S : \A y \in S : x <= y
         IN <<m>> \o SortedIds(S \ {m})

\* os.listdir(save_dir): the chunk files of the file name there are now, sorted
\* by chunk id; none: nothing is done
H_List(k) ==
    /\ hTask[k].pc = "list"
    /\ LET ids == { c \in 0 .. (ThreadCap - 1) :
                      <<k[1], c>> \in ChunkKeys /\ cfile[<<k[1], c>>].linked }
       IN hTask' = [hTask EXCEPT ![k] =
                       [@ EXCEPT !.list = SortedIds(ids), !.pos = 1, !.off = 0,
                                 !.sawAll = \A j \in ChunkKeys :
                                     j[1] = k[1] =>
                                         hTask[j].pc \in {"list", "open", "merge", "done"},
                                 !.pc = IF ids = {} THEN "done" ELSE "open"]]
    /\ UNCHANGED <<files, cfg, auxVars, peer, senderVars, wireVars, recvVars, cwire, cfile>>

\* open(output_path, 'wb'): the output file is created or truncated
H_Open(k) ==
    /\ hTask[k].pc = "open"
    /\ disk' = (<<saveDir, files[k[1]].name, 0>> :> <<>>) @@ disk
    /\ hTask' = [hTask EXCEPT ![k] = [@ EXCEPT !.pc = "merge"]]
    /\ UNCHANGED <<files, cfg, auxVars, peer, senderVars, wireVars, rpc, rmeta, decision, rReg, rStats,
                   rHistory, saveDir, dirs, rfile, received_files, rWrote, lst,
                   cwire, cfile>>

\* a write of data at position off of a file holding old (a gap reads as zeros)
WriteAt(old, off, data) ==
    [x \in 1 .. Max(Len(old), off + Len(data)) |->
        IF x > off /\ x <= off + Len(data) THEN data[x - off]
        ELSE IF x <= Len(old) THEN old[x]
        ELSE Byte(0, 0)]

\* one turn of the for loop: the chunk file of the list is opened (gone: the
\* exception ends the function), what it holds now is written at this handler's
\* position of the output file, and the chunk file is removed
H_Merge(k) ==
    /\ hTask[k].pc = "merge"
    /\ IF hTask[k].pos > Len(hTask[k].list)
       THEN /\ hTask' = [hTask EXCEPT ![k] = [@ EXCEPT !.pc = "done"]]
            /\ UNCHANGED <<disk, cfile>>
       ELSE LET c   == <<k[1], hTask[k].list[hTask[k].pos]>>
                out == <<saveDir, files[k[1]].name, 0>>
            IN
            IF ~cfile[c].linked
            THEN /\ hTask' = [hTask EXCEPT ![k] = [@ EXCEPT !.pc = "done"]]
                 /\ UNCHANGED <<disk, cfile>>
            ELSE /\ disk' = [disk EXCEPT ![out] = WriteAt(@, hTask[k].off, cfile[c].data)]
                 /\ cfile' = [cfile EXCEPT ![c].linked = FALSE]
                 /\ hTask' = [hTask EXCEPT ![k] =
                                 [@ EXCEPT !.pos = @ + 1,
                                           !.off = @ + Len(cfile[c].data)]]
    /\ UNCHANGED <<files, cfg, auxVars, peer, senderVars, wireVars, rpc, rmeta, decision, rReg, rStats,
                   rHistory, saveDir, dirs, rfile, received_files, rWrote, lst, cwire>>

\* an accepted transfer with one large file: the save directory is prepared, and
\* on the chunk connection of every chunk the descriptor and the bytes of its
\* range are in flight
InitChunkOn(d) ==
    /\ files \in { fs \in FileLists : Len(IndexSel(fs, 1, TRUE)) = 1 }
    /\ cfg \in [auto_accept : BOOLEAN, overwrite : BOOLEAN, subfolders : BOOLEAN]
    /\ spc = "stream"
    /\ confirmation = "READY"
    /\ sTask = NoTask
    /\ cTask = [k \in ChunkKeys |-> [pc |-> "done", remaining |-> 0, err |-> FALSE]]
    /\ sReg = [active |-> TRUE, status |-> "Preparing", lock |-> TRUE,
               prog |-> TRUE, sent |-> 0, total |-> TotalSize]
    /\ sStats = [files |-> 0, bytes |-> 0]
    /\ sHistory = <<>>
    /\ sWrote = <<"meta">>
    /\ wmeta = Metadata
    /\ c2r = <<>>
    /\ c2rClosed = FALSE
    /\ r2c = <<>>
    /\ r2cClosed = FALSE
    /\ rpc = "completion"
    /\ rmeta = Metadata
    /\ decision = "none"
    /\ rReg = [active |-> FALSE, lock |-> TRUE, prog |-> TRUE,
               received |-> 0, total |-> TotalSize]
    /\ rStats = [files |-> 0, bytes |-> 0]
    /\ rHistory = <<>>
    /\ saveDir = PreparedDir(Len(files))
    /\ dirs = IF UsesBatch(Len(files)) THEN {BatchDir} ELSE {}
    /\ disk = d
    /\ rfile = NoFile
    /\ received_files = <<>>
    /\ rWrote = <<"READY">>
    /\ lst = [p \in Ports |-> "listening"]
    /\ peer = NoPeer
    /\ hTask = [k \in ChunkKeys |-> [NoHandler EXCEPT !.pc = "desc"]]
    /\ cwire = [k \in ChunkKeys |-> ChunkData(k)]
    /\ cfile = [k \in ChunkKeys |-> NoChunkFile]
    /\ AuxIdle

InitChunk == InitChunkOn(<<>>)

NextChunk ==
    \/ \E k \in ChunkKeys : H_Desc(k)
    \/ \E k \in ChunkKeys : H_Recv(k)
    \/ \E k \in ChunkKeys : H_List(k)
    \/ \E k \in ChunkKeys : H_Open(k)
    \/ \E k \in ChunkKeys : H_Merge(k)

SpecChunk == InitChunk /\ [][NextChunk]_vars

\* the same handlers next to the end of the transfer: the sender, whose tasks
\* have sent everything, writes TRANSFER_COMPLETE, and the handler of the
\* control connection reads it, sleeps one second, finalizes and cleans up,
\* while no chunk handler is waited for
NextLate ==
    \/ NextChunk
    \/ S_Complete
    \/ R_Completion

SpecLate == InitChunk /\ [][NextLate]_vars

\* ================================= several control connections at one receiver
\* The handlers of _receive_files' connections, reduced to what they do to the
\* registries transfer_locks and chunk_progress: every connection is accepted
\* (auto-accept or a yes), sends `left` buffers of small-file data and ends.
MaxConns  == 2        \* control connections
MaxClock  == 1        \* seconds the clock can advance
MaxBufs   == 2        \* buffers of file data on one connection
PeerAddrs == {"p", "q"}

\* transfer_id = f"recv_{int(time.time())}_{addr[0]}"
TransferId(t, addr) == <<"recv", t, addr>>

\* time passes
Tick ==
    /\ conns # <<>>
    /\ now < MaxClock
    /\ now' = now + 1
    /\ UNCHANGED <<files, cfg, senderVars, wireVars, recvVars, peer, chunkVars,
                   cancel_event, conns, regs, calc, disc, lateVars>>

\* the accept loop hands every connection to a thread of its own and goes back
\* to accept(): no handler keeps it
LoopFree_inline == \A h \in DOMAIN conns : conns[h].pc \in {"wait", "closed"}
LoopFree == TRUE

\* accept() returns the connection and its handler makes the transfer id; it
\* reads the metadata and, without auto-accept, asks
M_Accept(h) ==
    /\ conns[h].pc = "wait"
    /\ LoopFree
    /\ conns' = [conns EXCEPT ![h] =
                    [@ EXCEPT !.pc = IF cfg.auto_accept THEN "init" ELSE "ask",
                              !.id = TransferId(now, conns[h].addr)]]
    /\ UNCHANGED <<files, cfg, senderVars, wireVars, recvVars, peer, chunkVars,
                   cancel_event, now, regs, calc, disc, lateVars>>

\* ask_accept_transfer: the handler waits in result_q.get() until the dialog
\* is answered; a refusal writes REJECTED and returns through the finally block
M_Ask(h) ==
    /\ conns[h].pc = "ask"
    /\ \E accept \in BOOLEAN :
          conns' = [conns EXCEPT ![h] =
                       [@ EXCEPT !.pc = IF accept THEN "init" ELSE "final"]]
    /\ UNCHANGED <<files, cfg, senderVars, wireVars, recvVars, peer, chunkVars,
                   cancel_event, now, regs, calc, disc, lateVars>>

\* transfer_locks[transfer_id] = Lock(); chunk_progress[transfer_id] = {...}
M_Init(h) ==
    /\ conns[h].pc = "init"
    /\ regs' = [locks    |-> regs.locks \cup {conns[h].id},
                progress |-> (conns[h].id :> 0) @@ regs.progress]
    /\ conns' = [conns EXCEPT ![h] = [@ EXCEPT !.pc = "recv"]]
    /\ UNCHANGED <<files, cfg, senderVars, wireVars, recvVars, peer, chunkVars,
                   cancel_event, now, calc, disc, lateVars>>

\* one buffer of file data: `with transfer_locks[transfer_id]:
\* chunk_progress[transfer_id]['received'] += len(data)`; a missing entry
\* raises KeyError and the receive ends
M_Recv(h) ==
    /\ conns[h].pc = "recv"
    /\ IF conns[h].left = 0
       THEN /\ conns' = [conns EXCEPT ![h] = [@ EXCEPT !.pc = "final"]]
            /\ UNCHANGED regs
       ELSE IF conns[h].id \in regs.locks /\ conns[h].id \in DOMAIN regs.progress
       THEN /\ regs' = [regs EXCEPT !.progress[conns[h].id] = @ + 1]
            /\ conns' = [conns EXCEPT ![h] =
                            [@ EXCEPT !.left = @ - 1, !.counted = @ + 1]]
       ELSE /\ conns' = [conns EXCEPT ![h] = [@ EXCEPT !.pc = "final", !.err = TRUE]]
            /\ UNCHANGED regs
    /\ UNCHANGED <<files, cfg, senderVars, wireVars, recvVars, peer, chunkVars,
                   cancel_event, now, calc, disc, lateVars>>

\* the finally block: the entries of the transfer id are deleted
M_Final(h) ==
    /\ conns[h].pc = "final"
    /\ regs' = [locks    |-> regs.locks \ {conns[h].id},
                progress |-> [x \in DOMAIN regs.progress \ {conns[h].id} |->
                                 regs.progress[x]]]
    /\ conns' = [conns EXCEPT ![h] = [@ EXCEPT !.pc = "closed"]]
    /\ UNCHANGED <<files, cfg, senderVars, wireVars, recvVars, peer, chunkVars,
                   cancel_event, now, calc, disc, lateVars>>

\* the receiving host in its accept loop, the connections of its peers pending
InitTwo ==
    /\ files = <<[name |-> "a", size |-> BufSize]>>
    /\ cfg \in [auto_accept : {TRUE}, overwrite : BOOLEAN, subfolders : BOOLEAN]
    /\ spc = "peer"
    /\ confirmation = "none"
    /\ sTask = NoTask
    /\ cTask = [k \in ChunkKeys |-> NoChunk]
    /\ sReg = [active |-> FALSE, status |-> "none", lock |-> FALSE,
               prog |-> FALSE, sent |-> 0, total |-> 0]
    /\ sStats = [files |-> 0, bytes |-> 0]
    /\ sHistory = <<>>
    /\ sWrote = <<>>
    /\ wmeta = NoMeta
    /\ c2r = <<>>
    /\ c2rClosed = FALSE
    /\ r2c = <<>>
    /\ r2cClosed = FALSE
    /\ rpc = "accept"
    /\ rmeta = NoMeta
    /\ decision = "none"
    /\ rReg = [active |-> FALSE, lock |-> FALSE, prog |-> FALSE,
               received |-> 0, total |-> 0]
    /\ rStats = [files |-> 0, bytes |-> 0]
    /\ rHistory = <<>>
    /\ saveDir = "none"
    /\ dirs = {}
    /\ disk = <<>>
    /\ rfile = NoFile
    /\ received_files = <<>>
    /\ rWrote = <<>>
    /\ lst = [p \in Ports |-> "unstarted"]
    /\ peer = NoPeer
    /\ hTask = [k \in ChunkKeys |-> NoHandler]
    /\ cwire = [k \in ChunkKeys |-> <<>>]
    /\ cfile = [k \in ChunkKeys |-> NoChunkFile]
    /\ cancel_event = NoCancel
    /\ now = 0
    /\ conns \in [1 .. MaxConns ->
                    [pc : {"wait"}, addr : PeerAddrs, id : {<<>>},
                     left : 1 .. MaxBufs, counted : {0}, err : {FALSE}]]
    /\ regs = NoRegs
    /\ calc = NoCalc
    /\ disc = NoDisc
    /\ fr = NoFr
    /\ lk = NoLk
    /\ pool = NoPool
    /\ svc = NoSvc

NextTwo ==
    \/ Tick
    \/ \E h \in DOMAIN conns : M_Accept(h)
    \/ \E h \in DOMAIN conns : M_Init(h)
    \/ \E h \in DOMAIN conns : M_Recv(h)
    \/ \E h \in DOMAIN conns : M_Final(h)

SpecTwo == InitTwo /\ [][NextTwo]_vars

\* ================================================== cancelling a send
\* app.cancel_send (and cancel_all_transfers): info['cancel_event'].set() for
\* the sending record of active_transfers
A_CancelSend ==
    /\ sReg.active
    /\ ~cancel_event.set
    /\ cancel_event' = [set |-> TRUE, sent |-> sReg.sent]
    /\ UNCHANGED <<files, cfg, senderVars, wireVars, recvVars, peer, chunkVars,
                   now, conns, regs, calc, disc, lateVars>>

\* a send to a receiver that keeps the names it is sent
InitCancel ==
    /\ Init
    /\ ~cfg.overwrite
    /\ cfg.subfolders

NextCancel ==
    \/ A_CancelSend
    \/ Next

SpecCancel == InitCancel /\ [][NextCancel]_vars

\* ================================= the arithmetic of a send, on its own
MaxThreadsCfg == 8     \* the highest "Max Parallel Threads" of the settings
MaxCalcSize   == 18    \* the largest file size handed to _create_chunk_threads

\* send_files' analysis: the two buckets and the metadata counts
K_Split ==
    /\ calc.pc = "in"
    /\ calc' = [calc EXCEPT !.pc = "split", !.small = SmallFiles,
                            !.large = LargeFiles, !.meta = Metadata]
    /\ UNCHANGED <<files, cfg, senderVars, wireVars, recvVars, peer, chunkVars,
                   cancel_event, now, conns, regs, disc, lateVars>>

\* _create_chunk_threads: num_threads for the file and the setting
K_Threads ==
    /\ calc.pc = "split"
    /\ calc' = [calc EXCEPT !.pc = "threads",
                            !.threads = NumThreadsOf(calc.max_threads, calc.size)]
    /\ UNCHANGED <<files, cfg, senderVars, wireVars, recvVars, peer, chunkVars,
                   cancel_event, now, conns, regs, disc, lateVars>>

\* the for loop: <<start_byte, end_byte>> of chunk i = 0 .. num_threads - 1
K_Ranges ==
    /\ calc.pc = "threads"
    /\ calc' = [calc EXCEPT !.pc = "ranges",
                            !.ranges = [x \in 1 .. calc.threads |->
                                          <<StartOf(calc.size, calc.threads, x - 1),
                                            EndOf(calc.size, calc.threads, x - 1)>>]]
    /\ UNCHANGED <<files, cfg, senderVars, wireVars, recvVars, peer, chunkVars,
                   cancel_event, now, conns, regs, disc, lateVars>>

\* the bytes the loop of _send_small_files hands to sock.send for a file
\* recorded with size bytes that holds actual bytes when it is read
RECURSIVE SmallLoop(_, _, _)
SmallLoop(size, actual, sent) ==
    LET chunk == Min(BufSize, Max(0, actual - sent)) IN
    IF sent < size /\ chunk > 0 THEN SmallLoop(size, actual, sent + chunk)
    ELSE sent

\* the bytes the loop of _send_file_chunk hands to sock.send: f.seek(pos), then
\* reads of min(chunk_size, remaining)
RECURSIVE ChunkLoop(_, _, _)
ChunkLoop(pos, remaining, actual) ==
    LET chunk == Min(Min(BufSize, remaining), Max(0, actual - pos)) IN
    IF remaining > 0 /\ chunk > 0
    THEN chunk + ChunkLoop(pos + chunk, remaining - chunk, actual)
    ELSE 0

\* the two send loops run over the file as it is at send time
K_Send ==
    /\ calc.pc = "ranges"
    /\ calc' = [calc EXCEPT
                  !.pc = "sent",
                  !.small_bytes = SmallLoop(calc.size, calc.actual, 0),
                  !.chunk_bytes = [x \in 1 .. calc.threads |->
                                     ChunkLoop(calc.ranges[x][1],
                                               calc.ranges[x][2] - calc.ranges[x][1],
                                               calc.actual)]]
    /\ UNCHANGED <<files, cfg, senderVars, wireVars, recvVars, peer, chunkVars,
                   cancel_event, now, conns, regs, disc, lateVars>>

\* a selection with sizes around the split threshold, a setting of the spinbox
\* range, a file size and the length of the file at send time
InitCalc ==
    /\ files \in UNION { [1 .. n -> [name : {"a"},
                                     size : (SplitThreshold - 1) .. (SplitThreshold + 1)]] :
                           n \in 1 .. MaxFiles }
    /\ cfg = [auto_accept |-> FALSE, overwrite |-> FALSE, subfolders |-> TRUE]
    /\ spc = "start"
    /\ confirmation = "none"
    /\ sTask = NoTask
    /\ cTask = [k \in ChunkKeys |-> NoChunk]
    /\ sReg = [active |-> TRUE, status |-> "Preparing", lock |-> FALSE,
               prog |-> FALSE, sent |-> 0, total |-> 0]
    /\ sStats = [files |-> 0, bytes |-> 0]
    /\ sHistory = <<>>
    /\ sWrote = <<>>
    /\ wmeta = NoMeta
    /\ c2r = <<>>
    /\ c2rClosed = FALSE
    /\ r2c = <<>>
    /\ r2cClosed = FALSE
    /\ rpc = "accept"
    /\ rmeta = NoMeta
    /\ decision = "none"
    /\ rReg = [active |-> FALSE, lock |-> FALSE, prog |-> FALSE,
               received |-> 0, total |-> 0]
    /\ rStats = [files |-> 0, bytes |-> 0]
    /\ rHistory = <<>>
    /\ saveDir = "none"
    /\ dirs = {}
    /\ disk = <<>>
    /\ rfile = NoFile
    /\ received_files = <<>>
    /\ rWrote = <<>>
    /\ lst = [p \in Ports |-> "unstarted"]
    /\ peer = NoPeer
    /\ hTask = [k \in ChunkKeys |-> NoHandler]
    /\ cwire = [k \in ChunkKeys |-> <<>>]
    /\ cfile = [k \in ChunkKeys |-> NoChunkFile]
    /\ cancel_event = NoCancel
    /\ now = 0
    /\ conns = <<>>
    /\ regs = NoRegs
    /\ \E mt \in 1 .. MaxThreadsCfg, sz \in 1 .. MaxCalcSize,
          len \in 0 .. (MaxCalcSize + 1) :
          /\ len \in (sz - 1) .. (sz + 1)
          /\ calc = [NoCalc EXCEPT !.pc = "in", !.max_threads = mt, !.size = sz,
                                   !.actual = len]
    /\ disc = NoDisc
    /\ fr = NoFr
    /\ lk = NoLk
    /\ pool = NoPool
    /\ svc = NoSvc

NextCalc ==
    \/ K_Split
    \/ K_Threads
    \/ K_Ranges
    \/ K_Send

SpecCalc == InitCalc /\ [][NextCalc]_vars

\* ================================================== discovery over UDP
DefaultPort == 12345
DiscNames   == {"N", "M"}
\* what the port entry can hold: digits (with their value) or something else
PortTexts   == { [digits |-> TRUE, value |-> DefaultPort],
                 [digits |-> TRUE, value |-> DefaultPort + 1],
                 [digits |-> FALSE, value |-> 0] }

\* the announce datagram of the responder at address a
Announce(a) ==
    LET r == disc.resp[a]
    IN [ addr    |-> a,
         type    |-> "announce",
         name    |-> r.name,
         port    |-> IF r.port_val.digits THEN r.port_val.value ELSE DefaultPort,
         version |-> "2.0",
         status  |-> IF r.is_receiving THEN "receiving" ELSE "idle" ]

\* the value _discover_hosts stores for an announce datagram
Discovered(r) ==
    [ name |-> r.name, port |-> r.port, version |-> r.version, last_seen |-> now ]

\* a row of the host tree
TreeRow(ip, info) ==
    [ name   |-> info.name,
      ip     |-> ip,
      status |-> IF "status" \in DOMAIN info /\ info["status"] = "receiving"
                 THEN "Receiving" ELSE "Idle" ]

\* start_receiving (the port entry must hold a number) / stop_receiving
D_Toggle(a) ==
    /\ disc.pc # "none"
    /\ disc.resp[a].is_receiving \/ disc.resp[a].port_val.digits
    /\ disc' = [disc EXCEPT !.resp[a].is_receiving = ~@]
    /\ UNCHANGED <<files, cfg, senderVars, wireVars, recvVars, peer, chunkVars,
                   cancel_event, now, conns, regs, calc, lateVars>>

\* _discover_hosts: the broadcast, which reaches some of the listeners
D_Probe ==
    /\ disc.pc = "idle"
    /\ \E S \in SUBSET PeerAddrs :
          disc' = [disc EXCEPT !.pc = "collect", !.probes = S, !.discovered = <<>>]
    /\ UNCHANGED <<files, cfg, senderVars, wireVars, recvVars, peer, chunkVars,
                   cancel_event, now, conns, regs, calc, lateVars>>

\* socket(), setsockopt or sendto raises: the outer except reports
\* "Discovery failed" and nothing is handed to the application
D_ProbeFail ==
    /\ disc.pc = "idle"
    /\ disc' = [disc EXCEPT !.pc = "failed"]
    /\ UNCHANGED <<files, cfg, senderVars, wireVars, recvVars, peer, chunkVars,
                   cancel_event, now, conns, regs, calc, lateVars>>

\* what recvfrom can hand to either socket: a JSON object of type "discover",
\* of type "announce" or of another type, JSON that is not an object, and
\* bytes that are not JSON
DgramTypes == {"discover", "announce", "other", "nonobject", "garbage"}
InitiatorAddr == "me"
StrayAddr     == "x"

\* one turn of the responder's loop on a datagram of type t from src: the
\* sendto calls it makes (json.loads or request.get raising is swallowed)
Respond_anytype(a, t, src) ==
    IF t \in {"discover", "other"}
    THEN << [to |-> src, msg |-> Announce(a)] >> ELSE << >>
Respond(a, t, src) ==
    IF t = "discover" THEN << [to |-> src, msg |-> Announce(a)] >> ELSE << >>

\* the record of one turn of the loop of responder a
LogRec(a, t, src) ==
    [ at |-> a, type |-> t, src |-> src, on |-> disc.resp[a].is_receiving,
      out |-> Respond(a, t, src) ]

\* _discovery_listener: a "discover" request is answered with the announce
D_Answer(a) ==
    /\ a \in disc.probes
    /\ a \notin disc.down
    /\ disc' = [disc EXCEPT
                  !.probes = @ \ {a},
                  !.replies = @ \cup { o.msg : o \in
                      { Respond(a, "discover", InitiatorAddr)[i] :
                          i \in DOMAIN Respond(a, "discover", InitiatorAddr) } },
                  !.log = Append(@, LogRec(a, "discover", InitiatorAddr))]
    /\ UNCHANGED <<files, cfg, senderVars, wireVars, recvVars, peer, chunkVars,
                   cancel_event, now, conns, regs, calc, lateVars>>

\* response.get("type") == "announce"; json.loads raising is swallowed
IsAnnounce_any(r) == TRUE
IsAnnounce(r) == r.type = "announce"

\* one turn of the collection loop: recvfrom, the entry under addr[0]
D_Collect ==
    /\ disc.pc = "collect"
    /\ \E r \in disc.replies :
          disc' = [disc EXCEPT
                     !.replies = @ \ {r},
                     !.got = IF r.type = "announce" THEN @ \cup {r} ELSE @,
                     !.last = IF r.type = "announce" THEN (r.addr :> r) @@ @
                              ELSE @,
                     !.discovered = IF IsAnnounce(r)
                                    THEN (r.addr :> Discovered(r)) @@ @ ELSE @]
    /\ UNCHANGED <<files, cfg, senderVars, wireVars, recvVars, peer, chunkVars,
                   cancel_event, now, conns, regs, calc, lateVars>>

\* the window ends (end_time or socket.timeout): the map is handed to the app
D_Timeout_raises ==
    /\ disc.pc = "collect"
    /\ disc' = [disc EXCEPT !.pc = "failed"]
    /\ UNCHANGED <<files, cfg, senderVars, wireVars, recvVars, peer, chunkVars,
                   cancel_event, now, conns, regs, calc, lateVars>>
D_Timeout ==
    /\ disc.pc = "collect"
    /\ disc' = [disc EXCEPT !.pc = "update"]
    /\ UNCHANGED <<files, cfg, senderVars, wireVars, recvVars, peer, chunkVars,
                   cancel_event, now, conns, regs, calc, lateVars>>

\* _update_discovered_hosts: the tree is rebuilt from the map
D_Update ==
    /\ disc.pc = "update"
    /\ disc' = [disc EXCEPT !.pc = "shown",
                            !.tree = { TreeRow(ip, disc.discovered[ip]) :
                                         ip \in DOMAIN disc.discovered }]
    /\ UNCHANGED <<files, cfg, senderVars, wireVars, recvVars, peer, chunkVars,
                   cancel_event, now, conns, regs, calc, lateVars>>

\* responders with a name, a port entry and a receiving state; nothing sent yet
InitDisc ==
    /\ files = <<>>
    /\ cfg = [auto_accept |-> FALSE, overwrite |-> FALSE, subfolders |-> TRUE]
    /\ spc = "start"
    /\ confirmation = "none"
    /\ sTask = NoTask
    /\ cTask = [k \in ChunkKeys |-> NoChunk]
    /\ sReg = [active |-> FALSE, status |-> "Preparing", lock |-> FALSE,
               prog |-> FALSE, sent |-> 0, total |-> 0]
    /\ sStats = [files |-> 0, bytes |-> 0]
    /\ sHistory = <<>>
    /\ sWrote = <<>>
    /\ wmeta = NoMeta
    /\ c2r = <<>>
    /\ c2rClosed = FALSE
    /\ r2c = <<>>
    /\ r2cClosed = FALSE
    /\ rpc = "accept"
    /\ rmeta = NoMeta
    /\ decision = "none"
    /\ rReg = [active |-> FALSE, lock |-> FALSE, prog |-> FALSE,
               received |-> 0, total |-> 0]
    /\ rStats = [files |-> 0, bytes |-> 0]
    /\ rHistory = <<>>
    /\ saveDir = "none"
    /\ dirs = {}
    /\ disk = <<>>
    /\ rfile = NoFile
    /\ received_files = <<>>
    /\ rWrote = <<>>
    /\ lst = [p \in Ports |-> "unstarted"]
    /\ peer = NoPeer
    /\ hTask = [k \in ChunkKeys |-> NoHandler]
    /\ cwire = [k \in ChunkKeys |-> <<>>]
    /\ cfile = [k \in ChunkKeys |-> NoChunkFile]
    /\ cancel_event = NoCancel
    /\ now = 0
    /\ conns = <<>>
    /\ regs = NoRegs
    /\ calc = NoCalc
    /\ \E rs \in [PeerAddrs -> [name : DiscNames, port_val : PortTexts,
                                 is_receiving : {FALSE}]] :
          disc = [pc |-> "idle", resp |-> rs, probes |-> {}, replies |-> {},
                  got |-> {}, discovered |-> <<>>, tree |-> {},
                  down |-> {}, log |-> <<>>, last |-> <<>>, injected |-> 0]
    /\ fr = NoFr
    /\ lk = NoLk
    /\ pool = NoPool
    /\ svc = NoSvc

NextDisc ==
    \/ \E a \in PeerAddrs : D_Toggle(a)
    \/ D_Probe
    \/ D_ProbeFail
    \/ \E a \in PeerAddrs : D_Answer(a)
    \/ D_Collect
    \/ D_Timeout
    \/ D_Update

SpecDisc == InitDisc /\ [][NextDisc]_vars

\* the collection loop is bounded by end_time and the 5 s socket timeout, and
\* the main loop runs the callback root.after queued
SpecDiscFair ==
    SpecDisc /\ WF_vars(D_Timeout) /\ WF_vars(D_Update)

\* ------------------------------------ datagrams nobody asked for
MaxDgrams == 2
\* the datagrams that came from outside the round so far
Unsolicited ==
    Cardinality({ i \in DOMAIN disc.log : disc.log[i].src = StrayAddr })
        + disc.injected

\* _discovery_listener: one turn of the loop on a datagram from another host,
\* of any type; whatever is raised inside the turn ends in "continue"
D_Stray_raises(a) ==
    /\ disc.pc # "none"
    /\ a \notin disc.down
    /\ Unsolicited < MaxDgrams
    /\ \E t \in DgramTypes :
          disc' = [disc EXCEPT
                     !.log = Append(@, LogRec(a, t, StrayAddr)),
                     !.down = IF t \in {"nonobject", "garbage"}
                              THEN @ \cup {a} ELSE @]
    /\ UNCHANGED <<files, cfg, senderVars, wireVars, recvVars, peer, chunkVars,
                   cancel_event, now, conns, regs, calc, lateVars>>
D_Stray(a) ==
    /\ disc.pc # "none"
    /\ a \notin disc.down
    /\ Unsolicited < MaxDgrams
    /\ \E t \in DgramTypes :
          disc' = [disc EXCEPT !.log = Append(@, LogRec(a, t, StrayAddr))]
    /\ UNCHANGED <<files, cfg, senderVars, wireVars, recvVars, peer, chunkVars,
                   cancel_event, now, conns, regs, calc, lateVars>>

\* a datagram some host sends to the initiator's socket during the window:
\* another announce from an address, or something that is not an announce
D_Inject ==
    /\ disc.pc = "collect"
    /\ Unsolicited < MaxDgrams
    /\ \E a \in PeerAddrs, t \in {"announce", "other", "garbage"},
          n \in DiscNames :
          /\ t # "announce" => n = "N"
          /\ disc' = [disc EXCEPT !.injected = @ + 1, !.replies = @ \cup
                     { [ addr |-> a, type |-> t, name |-> n,
                         port |-> DefaultPort, version |-> "2.0",
                         status |-> "idle" ] }]
    /\ UNCHANGED <<files, cfg, senderVars, wireVars, recvVars, peer, chunkVars,
                   cancel_event, now, conns, regs, calc, lateVars>>

NextStray ==
    \/ NextDisc
    \/ \E a \in PeerAddrs : D_Stray(a)
    \/ D_Inject

\* two responders that differ in name and in what their port entry holds
InitStray ==
    /\ InitDisc
    /\ disc.resp["p"].name = "N" /\ disc.resp["p"].port_val.digits
    /\ disc.resp["p"].port_val.value = DefaultPort + 1
    /\ disc.resp["q"].name = "M" /\ ~disc.resp["q"].port_val.digits

SpecStray == InitStray /\ [][NextStray]_vars

\* ============================== a send whose connections break under way
\* the network between the hosts goes away while the tasks are sending: every
\* send of a task that has not ended raises inside it, the joins return,
\* main_sock.send(b"TRANSFER_COMPLETE") raises and send_files records the
\* failure; the receiver finds the control connection closed after what arrived
X_Drop ==
    /\ spc = "stream"
    /\ ~TasksDone
    /\ sTask' = IF sTask.pc \in {"desc", "data"} THEN [sTask EXCEPT !.pc = "done"]
                ELSE sTask
    /\ cTask' = [k \in ChunkKeys |->
                   IF cTask[k].pc = "done" THEN cTask[k]
                   ELSE [cTask[k] EXCEPT !.pc = "done", !.err = TRUE]]
    /\ SendFailed("Broken pipe")
    /\ UNCHANGED <<files, cfg, auxVars, peer, chunkVars, confirmation, sReg, sStats,
                   sWrote, c2r, r2c, r2cClosed, wmeta, recvVars>>

\* main_sock.connect raises (nobody listens on the port, no route): nothing
\* was written and the except branch of send_files records the failure
S_ConnectFail ==
    /\ spc = "start"
    /\ SendFailed("Connection refused")
    /\ UNCHANGED <<files, cfg, auxVars, peer, chunkVars, confirmation, sTask,
                   cTask, sReg, sStats, sWrote, c2r, r2c, r2cClosed, wmeta,
                   recvVars>>

NextDrop ==
    \/ X_Drop
    \/ S_ConnectFail
    \/ Next

SpecDrop == Init /\ [][NextDrop]_vars

\* ================== a destination directory that is not empty at the start
\* what a file that was in the directory before the transfer holds
OldContent == << Byte(9, 9) >>

\* before the sender connects, the directory the receiver saves to already
\* holds a file with one of the names
E_Old ==
    /\ spc = "start"
    /\ disk = <<>>
    /\ \E n \in FileNames : disk' = (<<BaseDir, n, 0>> :> OldContent)
    /\ UNCHANGED <<files, cfg, auxVars, peer, senderVars, wireVars, rpc, rmeta,
                   decision, rReg, rStats, rHistory, saveDir, dirs, rfile,
                   received_files, rWrote, lst, chunkVars>>

NextOld ==
    \/ E_Old
    \/ Next

SpecOld == Init /\ [][NextOld]_vars

\* the chunk handlers of an accepted transfer whose directory held such a file
InitOldChunk ==
    \E n \in FileNames : InitChunkOn(<<BaseDir, n, 0>> :> OldContent)

SpecOldChunk == InitOldChunk /\ [][NextChunk]_vars

\* ======================================= the read of a length-prefixed frame
MaxPayload == 4    \* the longest frame body

\* no transfer on either side: what the specifications of single mechanisms
\* start from
AtRest ==
    /\ files = <<>>
    /\ cfg = [auto_accept |-> FALSE, overwrite |-> FALSE, subfolders |-> TRUE]
    /\ spc = "start"
    /\ confirmation = "none"
    /\ sTask = NoTask
    /\ cTask = [k \in ChunkKeys |-> NoChunk]
    /\ sReg = [active |-> FALSE, status |-> "Preparing", lock |-> FALSE,
               prog |-> FALSE, sent |-> 0, total |-> 0]
    /\ sStats = [files |-> 0, bytes |-> 0]
    /\ sHistory = <<>>
    /\ sWrote = <<>>
    /\ wmeta = NoMeta
    /\ c2r = <<>>
    /\ c2rClosed = FALSE
    /\ r2c = <<>>
    /\ r2cClosed = FALSE
    /\ rpc = "accept"
    /\ rmeta = NoMeta
    /\ decision = "none"
    /\ rReg = [active |-> FALSE, lock |-> FALSE, prog |-> FALSE,
               received |-> 0, total |-> 0]
    /\ rStats = [files |-> 0, bytes |-> 0]
    /\ rHistory = <<>>
    /\ saveDir = "none"
    /\ dirs = {}
    /\ disk = <<>>
    /\ rfile = NoFile
    /\ received_files = <<>>
    /\ rWrote = <<>>
    /\ lst = [p \in Ports |-> "unstarted"]
    /\ peer = NoPeer
    /\ hTask = [k \in ChunkKeys |-> NoHandler]
    /\ cwire = [k \in ChunkKeys |-> <<>>]
    /\ cfile = [k \in ChunkKeys |-> NoChunkFile]
    /\ cancel_event = NoCancel
    /\ now = 0
    /\ conns = <<>>
    /\ regs = NoRegs
    /\ calc = NoCalc

\* len(body).to_bytes(4, 'big') and int.from_bytes(data, 'big')
ToBytes(n) == [j \in 1 .. PrefixLen |-> (n \div (256 ^ (PrefixLen - j))) % 256]
RECURSIVE FromBytes(_)
FromBytes(bs) ==
    IF bs = <<>> THEN 0
    ELSE 256 * FromBytes(SubSeq(bs, 1, Len(bs) - 1)) + bs[Len(bs)]

\* json.dumps of an object in n bytes: '{', n - 2 bytes, '}'
JsonObject(n) == [j \in 1 .. n |-> IF j = 1 THEN 123 ELSE IF j = n THEN 125 ELSE 34]
\* json.loads(data.decode()) returns (does not raise) for a whole object only
JsonLoads(data) == Len(data) >= 2 /\ data = JsonObject(Len(data))

\* the transport hands over the next n bytes in flight
F_Arrive ==
    /\ fr.pc # "none"
    /\ fr.flight # <<>>
    /\ \E n \in 1 .. Len(fr.flight) :
          fr' = [fr EXCEPT !.buf = @ \o SubSeq(fr.flight, 1, n),
                          !.flight = SubSeq(@, n + 1, Len(@))]
    /\ UNCHANGED <<files, cfg, senderVars, wireVars, recvVars, peer, chunkVars,
                   cancel_event, now, conns, regs, calc, disc, lk, pool, svc>>

\* conn.recv(n): what has arrived, up to n bytes; nothing for n = 0 or at the
\* end of a closed connection
Recv(n) == SubSeq(fr.buf, 1, Min(n, Len(fr.buf)))
CanRecv(n) == n = 0 \/ fr.buf # <<>> \/ (fr.flight = <<>> /\ fr.closed)

\* metadata_size = int.from_bytes(conn.recv(4), 'big')
F_RecvPrefix ==
    /\ fr.pc = "prefix"
    /\ CanRecv(PrefixLen)
    /\ fr' = [fr EXCEPT !.pc = "body",
                        !.size = FromBytes(Recv(PrefixLen)),
                        !.buf = SubSeq(@, Len(Recv(PrefixLen)) + 1, Len(@))]
    /\ UNCHANGED <<files, cfg, senderVars, wireVars, recvVars, peer, chunkVars,
                   cancel_event, now, conns, regs, calc, disc, lk, pool, svc>>

\* json.loads(conn.recv(metadata_size).decode())
F_RecvBody ==
    /\ fr.pc = "body"
    /\ CanRecv(fr.size)
    /\ fr' = [fr EXCEPT !.pc = "done",
                        !.payload = Recv(fr.size),
                        !.result = IF JsonLoads(Recv(fr.size)) THEN "ok" ELSE "error",
                        !.buf = SubSeq(@, Len(Recv(fr.size)) + 1, Len(@))]
    /\ UNCHANGED <<files, cfg, senderVars, wireVars, recvVars, peer, chunkVars,
                   cancel_event, now, conns, regs, calc, disc, lk, pool, svc>>

\* a frame of a body of n bytes was written, or its first bytes before the
\* writer's connection closed; nothing has arrived yet
InitFrame ==
    /\ AtRest
    /\ disc = NoDisc
    /\ lk = NoLk
    /\ pool = NoPool
    /\ svc = NoSvc
    /\ \E n \in 2 .. MaxPayload, cut \in 0 .. (PrefixLen + MaxPayload) :
          /\ cut <= PrefixLen + n
          /\ fr = [pc |-> "prefix", body |-> n, closed |-> cut < PrefixLen + n,
                   flight |-> SubSeq(ToBytes(n) \o JsonObject(n), 1, cut),
                   buf |-> <<>>, size |-> 0, payload |-> <<>>, result |-> "none"]

NextFrame ==
    \/ F_Arrive
    \/ F_RecvPrefix
    \/ F_RecvBody

SpecFrame == InitFrame /\ [][NextFrame]_vars

\* ============================= the progress counter of a transfer and its lock
\* the tasks of one send: the small-file thread and two chunk threads
LockTasks == {"small", "chunk0", "chunk1"}

\* sock.send(chunk), then `with self.app.transfer_locks[transfer_id]:` is entered
P_Acquire(t) ==
    /\ lk.pc[t] = "send"
    /\ lk.owner = "none"
    /\ lk' = [lk EXCEPT !.owner = t, !.pc[t] = "locked"]
    /\ UNCHANGED <<files, cfg, senderVars, wireVars, recvVars, peer, chunkVars,
                   cancel_event, now, conns, regs, calc, disc, fr, pool, svc>>

\* the body of the with block, `['sent'] += len(chunk)` and `prog = ...` (a
\* reference to the record, no copy), and its exit
P_Update(t) ==
    /\ lk.pc[t] = "locked"
    /\ lk' = [lk EXCEPT !.sent = @ + BufSize,
                        !.log = @ \cup {[op |-> "add", task |-> t, held |-> lk.owner = t]},
                        !.owner = "none",
                        !.pc[t] = "read"]
    /\ UNCHANGED <<files, cfg, senderVars, wireVars, recvVars, peer, chunkVars,
                   cancel_event, now, conns, regs, calc, disc, fr, pool, svc>>

\* pct = (prog['sent'] / prog['total']) * 100 and the next turn of the loop
P_Read(t) ==
    /\ lk.pc[t] = "read"
    /\ lk' = [lk EXCEPT !.shown[t] = lk.sent,
                        !.log = @ \cup {[op |-> "read", task |-> t, held |-> lk.owner = t]},
                        !.left[t] = @ - 1,
                        !.pc[t] = IF lk.left[t] > 1 THEN "send" ELSE "done"]
    /\ UNCHANGED <<files, cfg, senderVars, wireVars, recvVars, peer, chunkVars,
                   cancel_event, now, conns, regs, calc, disc, fr, pool, svc>>

\* every task has some buffers to send
InitLock ==
    /\ AtRest
    /\ disc = NoDisc
    /\ fr = NoFr
    /\ pool = NoPool
    /\ svc = NoSvc
    /\ \E n \in [LockTasks -> 1 .. MaxBufs] :
          lk = [pc |-> [t \in LockTasks |-> "send"], left |-> n, owner |-> "none",
                sent |-> 0, shown |-> [t \in LockTasks |-> 0], log |-> {}]

NextLock ==
    \/ \E t \in LockTasks : P_Acquire(t)
    \/ \E t \in LockTasks : P_Update(t)
    \/ \E t \in LockTasks : P_Read(t)

SpecLock == InitLock /\ [][NextLock]_vars

\* ===================== the pool ports of a host that receives two transfers
\* Two control-connection handlers on one host, each with its own transfer id
\* and save directory; every sender has chunks 0 .. MaxChunkId and connects
\* chunk c to pool port PortOf(c). As for SpecChunk, a listener that has bound
\* its port is taken to be in accept().
MaxChunkId == 1
Transfers  == {1, 2}
PoolPorts  == { PortOf(c) : c \in 0 .. MaxChunkId }

\* _handle_multi_threaded_transfer of transfer i: READY is sent, the progress
\* entry made and _start_chunk_listeners starts a thread for every pool port
B_Start(i) ==
    /\ pool.pc # "none"
    /\ pool.handler[i] = "wait"
    /\ pool' = [pool EXCEPT !.handler[i] = "ready",
                            !.listener[i] = [p \in PoolPorts |-> "started"]]
    /\ UNCHANGED <<files, cfg, senderVars, wireVars, recvVars, peer, chunkVars,
                   cancel_event, now, conns, regs, calc, disc, fr, lk, svc>>

\* _chunk_listener(port, save_dir, transfer_id): bind and listen; with the port
\* held by a listener of the other transfer bind raises and the thread ends
B_Bind(i, p) ==
    /\ pool.pc # "none"
    /\ pool.listener[i][p] = "started"
    /\ IF pool.owner[p] = 0
       THEN pool' = [pool EXCEPT !.listener[i][p] = "listening", !.owner[p] = i]
       ELSE pool' = [pool EXCEPT !.listener[i][p] = "failed"]
    /\ UNCHANGED <<files, cfg, senderVars, wireVars, recvVars, peer, chunkVars,
                   cancel_event, now, conns, regs, calc, disc, fr, lk, svc>>

\* the handler a chunk of transfer j gets: the listener that holds the port
\* passes its own save_dir and transfer_id to _handle_chunk_connection
HandlerOf(j, p) == pool.owner[p]

\* _send_file_chunk of sender j (READY was read) connects chunk c; nobody
\* listening: the connect is refused and the chunk fails; otherwise
\* _receive_file_chunk writes <save_dir>/<name>.chunk_<c> and adds to
\* chunk_progress[transfer_id]
B_Chunk(j, c) ==
    /\ pool.pc # "none"
    /\ pool.handler[j] = "ready"
    /\ pool.chunk[<<j, c>>] = "unsent"
    /\ IF pool.owner[PortOf(c)] = 0
       THEN pool' = [pool EXCEPT !.chunk[<<j, c>>] = "refused"]
       ELSE LET i == HandlerOf(j, PortOf(c))
            IN pool' = [pool EXCEPT !.chunk[<<j, c>>] = "received",
                                    !.save_dir[i] = @ \cup {<<j, c>>},
                                    !.progress[i] = @ + 1]
    /\ UNCHANGED <<files, cfg, senderVars, wireVars, recvVars, peer, chunkVars,
                   cancel_event, now, conns, regs, calc, disc, fr, lk, svc>>

InitPool ==
    /\ AtRest
    /\ disc = NoDisc
    /\ fr = NoFr
    /\ lk = NoLk
    /\ svc = NoSvc
    /\ pool = [ pc       |-> "run",
                handler  |-> [i \in Transfers |-> "wait"],
                listener |-> [i \in Transfers |-> [p \in PoolPorts |-> "unstarted"]],
                owner    |-> [p \in PoolPorts |-> 0],
                chunk    |-> [k \in Transfers \X (0 .. MaxChunkId) |-> "unsent"],
                save_dir |-> [i \in Transfers |-> {}],
                progress |-> [i \in Transfers |-> 0] ]

NextPool ==
    \/ \E i \in Transfers : B_Start(i)
    \/ \E i \in Transfers, p \in PoolPorts : B_Bind(i, p)
    \/ \E j \in Transfers, c \in 0 .. MaxChunkId : B_Chunk(j, c)

SpecPool == InitPool /\ [][NextPool]_vars

\* ================================== start and stop of the receive service
\* app.start_receiving / app.stop_receiving on the main thread, the receiver
\* threads they start, and the sockets those threads make. Thread i makes
\* socket i and stores it in self.receiver_socket, which every thread reads
\* again for each accept(). A socket is "none", "unbound", "listening", "held" (closed by
\* another thread while accept() is blocked on it and the call did not
\* return: the port keeps taking connections until it does) or "closed".
MaxStarts == 2
Starts    == 1 .. MaxStarts

\* the port takes connections
Listening(i) == svc.sock[i] \in {"listening", "held"}

\* start_receiving: "Already receiving" returns; is_receiving = True and
\* transfer_manager.start_receiving starts a new receiver thread
V_Start ==
    /\ svc.pc # "none"
    /\ ~svc.is_receiving
    /\ svc.started < MaxStarts
    /\ svc' = [svc EXCEPT !.is_receiving = TRUE,
                          !.started = @ + 1,
                          !.thr[svc.started + 1] = "new"]
    /\ UNCHANGED <<files, cfg, senderVars, wireVars, recvVars, peer, chunkVars,
                   cancel_event, now, conns, regs, calc, disc, fr, lk, pool>>

\* stop_receiving: is_receiving = False; `if self.receiver_socket:
\* self.receiver_socket.close()`. A thread blocked in accept() on that socket
\* gets OSError or stays blocked, as the platform has it
V_Stop ==
    /\ svc.pc # "none"
    /\ LET r == svc.receiver_socket
       IN \E wakes \in BOOLEAN :
            svc' = [svc EXCEPT
                      !.is_receiving = FALSE,
                      !.stopped = TRUE,
                      !.sock = [i \in Starts |->
                                  IF i # r \/ svc.sock[i] \in {"none", "closed", "held"}
                                  THEN svc.sock[i]
                                  ELSE IF ~wakes /\ \E t \in Starts :
                                            svc.thr[t] = "accept" /\ svc.at[t] = i
                                  THEN "held" ELSE "closed"]]
    /\ UNCHANGED <<files, cfg, senderVars, wireVars, recvVars, peer, chunkVars,
                   cancel_event, now, conns, regs, calc, disc, fr, lk, pool>>

\* _receive_files: self.receiver_socket = socket.socket(), bind, listen; bind
\* raises while another socket takes connections on the port, and the outer
\* except reports "Receiver error"
V_Bind(i) ==
    /\ svc.pc # "none"
    /\ svc.thr[i] = "new"
    /\ IF \E j \in Starts : Listening(j)
       THEN svc' = [svc EXCEPT !.receiver_socket = i, !.sock[i] = "unbound",
                               !.thr[i] = "dead"]
       ELSE svc' = [svc EXCEPT !.receiver_socket = i, !.sock[i] = "listening",
                               !.thr[i] = "loop"]
    /\ UNCHANGED <<files, cfg, senderVars, wireVars, recvVars, peer, chunkVars,
                   cancel_event, now, conns, regs, calc, disc, fr, lk, pool>>

\* `while self.app.is_receiving:` and the call of
\* self.receiver_socket.accept(): false ends the function (nothing closes the
\* socket); accept on a socket that is closed or was never bound raises
\* OSError and the loop is left
V_Loop(i) ==
    /\ svc.pc # "none"
    /\ svc.thr[i] = "loop"
    /\ LET r == svc.receiver_socket
       IN IF svc.is_receiving /\ svc.sock[r] = "listening"
          THEN svc' = [svc EXCEPT !.thr[i] = "accept", !.at[i] = r]
          ELSE svc' = [svc EXCEPT !.thr[i] = "dead"]
    /\ UNCHANGED <<files, cfg, senderVars, wireVars, recvVars, peer, chunkVars,
                   cancel_event, now, conns, regs, calc, disc, fr, lk, pool>>

\* accept() returns a connection: `if not self.app.is_receiving: break`,
\* else a handler thread is started and the loop goes on. A held socket is
\* released when the call returns
V_Conn(i) ==
    /\ svc.pc # "none"
    /\ svc.thr[i] = "accept"
    /\ Listening(svc.at[i])
    /\ svc.handlers < MaxConns
    /\ svc' = [svc EXCEPT
                  !.sock[svc.at[i]] = IF @ = "held" THEN "closed" ELSE @,
                  !.handlers = IF svc.is_receiving THEN @ + 1 ELSE @,
                  !.thr[i] = IF svc.is_receiving THEN "loop" ELSE "dead"]
    /\ UNCHANGED <<files, cfg, senderVars, wireVars, recvVars, peer, chunkVars,
                   cancel_event, now, conns, regs, calc, disc, fr, lk, pool>>

\* accept() blocked on a socket that close() has closed returns with OSError
V_Wake(i) ==
    /\ svc.pc # "none"
    /\ svc.thr[i] = "accept"
    /\ svc.sock[svc.at[i]] = "closed"
    /\ svc' = [svc EXCEPT !.thr[i] = "dead"]
    /\ UNCHANGED <<files, cfg, senderVars, wireVars, recvVars, peer, chunkVars,
                   cancel_event, now, conns, regs, calc, disc, fr, lk, pool>>

InitSvc ==
    /\ AtRest
    /\ disc = NoDisc
    /\ fr = NoFr
    /\ lk = NoLk
    /\ pool = NoPool
    /\ svc = [ pc |-> "run", is_receiving |-> FALSE, stopped |-> FALSE,
               receiver_socket |-> 0, started |-> 0, handlers |-> 0,
               thr  |-> [i \in Starts |-> "none"],
               at   |-> [i \in Starts |-> 0],
               sock |-> [i \in Starts |-> "none"] ]

NextSvc ==
    \/ V_Start
    \/ V_Stop
    \/ \E i \in Starts : V_Bind(i)
    \/ \E i \in Starts : V_Loop(i)
    \/ \E i \in Starts : V_Conn(i)
    \/ \E i \in Starts : V_Wake(i)

SpecSvc == InitSvc /\ [][NextSvc]_vars

\* ================== the receive service with the accept prompt and discovery
\* the receiving host in its accept loop without auto-accept, the connections
\* of its peers pending, and hosts that answer discovery probes
InitPrompt ==
    /\ files = <<[name |-> "a", size |-> BufSize]>>
    /\ cfg = [auto_accept |-> FALSE, overwrite |-> FALSE, subfolders |-> TRUE]
    /\ spc = "peer"
    /\ confirmation = "none"
    /\ sTask = NoTask
    /\ cTask = [k \in ChunkKeys |-> NoChunk]
    /\ sReg = [active |-> FALSE, status |-> "none", lock |-> FALSE,
               prog |-> FALSE, sent |-> 0, total |-> 0]
    /\ sStats = [files |-> 0, bytes |-> 0]
    /\ sHistory = <<>>
    /\ sWrote = <<>>
    /\ wmeta = NoMeta
    /\ c2r = <<>>
    /\ c2rClosed = FALSE
    /\ r2c = <<>>
    /\ r2cClosed = FALSE
    /\ rpc = "accept"
    /\ rmeta = NoMeta
    /\ decision = "none"
    /\ rReg = [active |-> FALSE, lock |-> FALSE, prog |-> FALSE,
               received |-> 0, total |-> 0]
    /\ rStats = [files |-> 0, bytes |-> 0]
    /\ rHistory = <<>>
    /\ saveDir = "none"
    /\ dirs = {}
    /\ disk = <<>>
    /\ rfile = NoFile
    /\ received_files = <<>>
    /\ rWrote = <<>>
    /\ lst = [p \in Ports |-> "unstarted"]
    /\ peer = NoPeer
    /\ hTask = [k \in ChunkKeys |-> NoHandler]
    /\ cwire = [k \in ChunkKeys |-> <<>>]
    /\ cfile = [k \in ChunkKeys |-> NoChunkFile]
    /\ cancel_event = NoCancel
    /\ now = 0
    /\ conns \in [1 .. MaxConns ->
                    [pc : {"wait"}, addr : PeerAddrs, id : {<<>>},
                     left : {1}, counted : {0}, err : {FALSE}]]
    /\ regs = NoRegs
    /\ calc = NoCalc
    /\ disc = [pc |-> "idle",
               resp |-> [a \in PeerAddrs |->
                           [name |-> "N", is_receiving |-> TRUE,
                            port_val |-> [digits |-> TRUE, value |-> DefaultPort]]],
               probes |-> {}, replies |-> {}, got |-> {}, discovered |-> <<>>,
               tree |-> {}, down |-> {}, log |-> <<>>, last |-> <<>>, injected |-> 0]
    /\ fr = NoFr
    /\ lk = NoLk
    /\ pool = NoPool
    /\ svc = NoSvc

NextPrompt ==
    \/ NextTwo
    \/ \E h \in DOMAIN conns : M_Ask(h)
    \/ D_Probe
    \/ \E a \in PeerAddrs : D_Answer(a)

SpecPrompt == InitPrompt /\ [][NextPrompt]_vars


\* =================================================================== claims
SentSuccess     == \E n \in DOMAIN sHistory :
                      sHistory[n].direction = "Sent" /\ sHistory[n].status = "Success"
ReceivedSuccess == \E n \in DOMAIN rHistory :
                      rHistory[n].direction = "Received" /\ rHistory[n].status = "Success"
ReceiverAtRest  == rpc = "closed" /\ \A p \in Ports : lst[p] \in {"unstarted", "closed"}
FinalPath(i)    == <<saveDir, files[i].name, 0>>

\* C1: once the sender has recorded a multi-chunk transfer as 'Success' (and the
\* receiver has come to rest), the final file of every large file exists on the
\* receiver and holds exactly the bytes of the source file.
C1_MultiChunkRoundTrip ==
    (SentSuccess /\ ReceiverAtRest) =>
        \A n \in DOMAIN LargeFiles :
            /\ Exists(FinalPath(LargeFiles[n]))
            /\ disk[FinalPath(LargeFiles[n])] = Content(LargeFiles[n])

\* C2: a reassembly check that runs while only part of a file's chunks has been
\* written completely does not write the final file from that part and removes
\* no chunk file that a sibling handler is still writing; when every chunk
\* handler of the file is through, the final file holds all chunks.
ChunksOf(i)      == { k \in ChunkKeys : k[1] = i }
ChunkWritten(k)  == hTask[k].pc \in {"list", "open", "merge", "done"}
LaterSamePath(j) ==
    \/ \E j2 \in (j + 1) .. Len(received_files) : received_files[j2].path = received_files[j].path
    \/ rpc = "data" /\ rfile.path = received_files[j].path
C3_InlineRoundTrip ==
    /\ Len(received_files) <= Len(SmallFiles)
    /\ \A j \in DOMAIN received_files :
          LET i == SmallFiles[j]
              r == received_files[j]
          IN /\ r.name = files[i].name
             /\ r.size = files[i].size
             /\ Exists(r.path)
             /\ ~LaterSamePath(j) => disk[r.path] = Content(i)
    /\ rpc = "data" =>
          /\ Len(received_files) < Len(SmallFiles)
          /\ disk[rfile.path] =
                SubSeq(Content(SmallFiles[Len(received_files) + 1]), 1, rfile.received)
    /\ (SentSuccess /\ rpc = "closed") => Len(received_files) = Len(SmallFiles)

\* C4: after the sender has sent all small files (at least one) followed by
\* TRANSFER_COMPLETE, the receiver has read exactly the announced number of small
\* files, took TRANSFER_COMPLETE as the completion signal and finalized: the
\* received counters are updated and a 'Received'/'Success' record is added.
C4_ReceiverCompletion ==
    (SentSuccess /\ rpc = "closed" /\ SmallFiles # <<>>) =>
        /\ Len(received_files) = rmeta.small_files
        /\ ReceivedSuccess
        /\ rStats.bytes = rmeta.total_size

\* C5: from the start of the listeners of an accepted transfer until that
\* transfer is finalized, the listener of each pool port is up.
C5_ListenersStayUp ==
    rpc \in {"frame", "data", "completion"} =>
        \A p \in Ports : lst[p] \in {"started", "listening"}

\* C6: with auto-accept off, the receiver has written READY, prepared a
\* destination directory or written a file only if ask_accept_transfer returned
\* true for the connection, whatever metadata frame the peer sent.
C6_NoWriteWithoutAcceptance ==
    (~cfg.auto_accept /\ decision # "yes") =>
        /\ "READY" \notin { rWrote[n] : n \in DOMAIN rWrote }
        /\ saveDir = "none"
        /\ dirs = {}
        /\ DOMAIN disk = {}

\* C7: a refusal writes REJECTED and ends the connection with no side effects:
\* no directory prepared, no listener started, no file byte on disk, counters,
\* history and registries as before.
C7_RejectNoSideEffects ==
    decision = "no" =>
        /\ rWrote = <<"REJECTED">>
        /\ rpc = "closed"
        /\ r2cClosed
        /\ saveDir = "none"
        /\ dirs = {}
        /\ DOMAIN disk = {}
        /\ \A p \in Ports : lst[p] = "unstarted"
        /\ rStats = [files |-> 0, bytes |-> 0]
        /\ rHistory = <<>>
        /\ received_files = <<>>
        /\ ~rReg.lock /\ ~rReg.prog /\ rReg.received = 0
\* the user refused a transfer of several files (a batch directory would have
\* been made) that holds a large file, and the sender has read the refusal
C7_Witness ==
    /\ decision = "no"
    /\ UsesBatch(rmeta.total_files)
    /\ rmeta.large_files > 0
    /\ confirmation = "REJECTED"

\* C8: a confirmation other than READY: the sender has written the metadata
\* frame and nothing else on the control connection (no descriptor, no file
\* byte, no TRANSFER_COMPLETE), and no small-file or chunk thread was started.
C8_NoDataAfterRejection ==
    confirmation \notin {"none", "READY"} =>
        /\ sWrote = <<"meta">>
        /\ sTask = NoTask
        /\ \A k \in ChunkKeys : cTask[k] = NoChunk
        /\ sReg.sent = 0
\* a selection with a small and a large file was refused
C8_Witness ==
    /\ confirmation = "REJECTED"
    /\ spc = "failed"
    /\ SmallFiles # <<>>
    /\ LargeFiles # <<>>

\* C9: when the receiver declines, the sender's TransferRecord ends with a
\* status that denotes the rejection, not the status it had before the handshake.
C9_RejectedRecordState ==
    (confirmation = "REJECTED" /\ spc = "failed") =>
        /\ sReg.active
        /\ sReg.status # "Preparing"

\* C10: a send recorded as 'Sent'/'Success' has its progress counter 'sent' equal
\* to 'total', and none of its tasks failed.
C10_ProgressEqualsTotalOnSuccess ==
    SentSuccess =>
        /\ sReg.sent = sReg.total
        /\ \A k \in ChunkKeys : ~cTask[k].err

\* C11: between two successive states the moved-bytes value of a progress
\* counter ('sent' of the sender, 'received' of a receiving transfer) never
\* decreases: no step takes back what a task has added.
C11_ProgressMonotonic ==
    [][ /\ sReg'.sent >= sReg.sent
        /\ (rReg.prog /\ rReg'.prog) => rReg'.received >= rReg.received
        /\ \A id \in DOMAIN regs.progress \cap DOMAIN regs'.progress :
              regs'.progress[id] >= regs.progress[id] ]_vars

\* C15: two transfers in flight at the same time have different transfer ids; a
\* transfer that is receiving has its lock and its progress entry, and the
\* entry holds what this transfer has counted.
InFlight(h) == conns[h].pc \in {"init", "recv", "final"}
C15_DisjointRecords ==
    /\ \A h1, h2 \in DOMAIN conns :
          (h1 # h2 /\ InFlight(h1) /\ InFlight(h2)) => conns[h1].id # conns[h2].id
    /\ \A h \in DOMAIN conns :
          conns[h].pc = "recv" =>
              /\ conns[h].id \in regs.locks
              /\ conns[h].id \in DOMAIN regs.progress
              /\ regs.progress[conns[h].id] = conns[h].counted

\* C12: TRANSFER_COMPLETE is written at most once, as the last thing the sender
\* writes on the control connection, and only when the small-file task and
\* every chunk task of every large file have terminated.
C12_MarkerAfterTasks ==
    LET toks == { n \in DOMAIN sWrote : sWrote[n] = "tok" } IN
    /\ Cardinality(toks) <= 1
    /\ toks # {} =>
          /\ toks = {Len(sWrote)}
          /\ sTask.pc \in {"none", "done"}
          /\ \A k \in ChunkKeys : cTask[k].pc = "done"
\* the marker was written for a selection with a small and a large file whose
\* small-file task and chunk tasks (two or more) had all run
C12_Witness ==
    /\ sWrote # <<>>
    /\ sWrote[Len(sWrote)] = "tok"
    /\ sTask.pc = "done"
    /\ Cardinality(ChunkKeys) >= 2
    /\ \E k \in ChunkKeys : ~cTask[k].err

\* C13: once the cancel signal of a send is set, every send loop (the
\* small-file loop, each chunk loop) sends at most one more buffer: the
\* progress counter grows by no more than one buffer for each loop.
SendLoops == (IF SmallFiles # <<>> THEN 1 ELSE 0) + Cardinality(ChunkKeys)
C13_CancelObserved ==
    cancel_event.set => sReg.sent <= cancel_event.sent + SendLoops * BufSize

\* C14: when a send has terminated (success, rejection or another failure) and
\* everything has come to rest, its transfer id is in none of the registries:
\* not in active_transfers, not in transfer_locks, not in chunk_progress.
C14_RecordDestroyed ==
    (spc \in {"done", "failed"} /\ ReceiverAtRest) =>
        /\ ~sReg.active
        /\ ~sReg.lock
        /\ ~sReg.prog

\* C16: the number of chunk connections for a large file is
\* min(maxThreads, max(1, floor(fileSize / minChunkSize))) for every configured
\* maxThreads >= 1.
C16_ThreadCount ==
    calc.pc \in {"threads", "ranges"} =>
        calc.threads = Min(calc.max_threads, Max(1, calc.size \div MinChunkSize))

\* C17: the ranges of chunks 0 .. n-1 are non-empty, contiguous, start at 0 and
\* end at fileSize (so they are pairwise disjoint), and every range but the
\* last has fileSize div n bytes: only the last takes the remainder.
C17_ChunkPartition ==
    calc.pc = "ranges" =>
        LET r == calc.ranges
            n == Len(r)
        IN /\ n = calc.threads
           /\ n >= 1
           /\ r[1][1] = 0
           /\ r[n][2] = calc.size
           /\ \A x \in 1 .. n : r[x][1] < r[x][2]
           /\ \A x \in 1 .. (n - 1) :
                 /\ r[x][2] = r[x + 1][1]
                 /\ r[x][2] - r[x][1] = calc.size \div n
           /\ r[n][2] - r[n][1] = (calc.size \div n) + (calc.size % n)
\* three or more chunks of a size that leaves a remainder
C17_Witness ==
    /\ calc.pc = "ranges"
    /\ calc.threads >= 3
    /\ calc.size % calc.threads # 0

\* C18: every file is in exactly one bucket, inline if its size is at or below
\* the split threshold and chunked if above, in the order of the selection,
\* and large_files + small_files = total_files in the metadata.
RECURSIVE InOrder(_)
InOrder(q) == Len(q) <= 1 \/ (q[1] < q[2] /\ InOrder(Tail(q)))
C18_SplitBuckets ==
    calc.pc \in {"split", "threads", "ranges"} =>
        /\ \A i \in DOMAIN files :
              /\ (\E x \in DOMAIN calc.small : calc.small[x] = i)
                    <=> files[i].size <= SplitThreshold
              /\ (\E x \in DOMAIN calc.large : calc.large[x] = i)
                    <=> files[i].size > SplitThreshold
        /\ InOrder(calc.small) /\ InOrder(calc.large)
        /\ Len(calc.small) + Len(calc.large) = Len(files)
        /\ calc.meta.small_files = Len(calc.small)
        /\ calc.meta.large_files = Len(calc.large)
        /\ calc.meta.total_files = Len(files)
        /\ calc.meta.large_files + calc.meta.small_files = calc.meta.total_files
\* a selection with a file of exactly the threshold and a file just above it
C18_Witness ==
    /\ calc.pc = "split"
    /\ \E i, j \in DOMAIN files :
          /\ files[i].size = SplitThreshold
          /\ files[j].size = SplitThreshold + 1
    /\ Len(calc.small) = 1
    /\ Len(calc.large) = 1

C20_DiscoveryRoundTrip ==
    disc.pc \in {"update", "shown"} =>
        \A r \in disc.got :
            /\ r.addr \in DOMAIN disc.discovered
            /\ disc.discovered[r.addr].name = r.name
            /\ disc.discovered[r.addr].port = r.port
            /\ "status" \in DOMAIN disc.discovered[r.addr]
            /\ disc.discovered[r.addr]["status"] = r.status

\* C21: a discovery round whose probe was sent and in which no announce
\* arrives comes to its end, hands an empty map to the application (an empty
\* host tree), and reports no discovery error: the error is only reported from
\* a round whose probe was not sent.
C21_EmptyDiscovery ==
    /\ [][disc'.pc = "failed" => disc.pc \in {"idle", "failed"}]_vars
    /\ []((disc.pc \in {"update", "shown"} /\ disc.got = {}) =>
              disc.discovered = <<>>)
    /\ []((disc.pc = "shown" /\ disc.got = {}) => disc.tree = {})
    /\ ((disc.pc = "collect") ~> (disc.pc = "shown"))
\* a round that ended with the probe sent to nobody who answered
C21_Witness ==
    /\ disc.pc = "shown"
    /\ disc.got = {}
    /\ disc.replies = {}
    /\ disc.probes = {}

\* C22: every chunk connection the sender attempts after reading READY finds a
\* listener bound on its pool port: the step in which a chunk task leaves its
\* connect is taken with the port's listener listening.
C22_ListenersBound ==
    [][\A k \in ChunkKeys :
          (cTask[k].pc = "connect" /\ cTask'[k].pc # "connect") =>
              lst[PortOf(k[2])] = "listening"]_vars

\* C23: the sender's writes on the control connection are, in this order, the
\* metadata frame, then (only after READY was read) the small files as units of
\* one descriptor followed by that file's data writes, then TRANSFER_COMPLETE
\* as the last write, then the close, after which nothing is written; the
\* receiver writes a single READY or REJECTED, after it read the metadata frame
\* and before it reads any small-file frame.
WroteOf(kind) == { n \in DOMAIN sWrote : sWrote[n] = kind }
C23_ControlOrder ==
    /\ [](/\ WroteOf("meta") = (IF sWrote = <<>> THEN {} ELSE {1})
          /\ Len(sWrote) > 1 => confirmation = "READY"
          /\ \A n \in WroteOf("data") : n > 1 /\ sWrote[n - 1] \in {"desc", "data"}
          /\ \A n \in WroteOf("tok") : n = Len(sWrote)
          /\ Cardinality(WroteOf("desc")) =
                 (IF sTask.pc = "desc" THEN sTask.idx - 1 ELSE sTask.idx)
          /\ spc = "done" => (c2rClosed /\ WroteOf("tok") # {}))
    /\ [][c2rClosed => sWrote' = sWrote]_vars
    /\ [](/\ Len(rWrote) <= 1
          /\ \A n \in DOMAIN rWrote : rWrote[n] \in {"READY", "REJECTED"}
          /\ rWrote # <<>> => rmeta # NoMeta
          /\ rWrote = <<>> => (rfile = NoFile /\ received_files = <<>>))
\* two small files went out as two units before the marker and the close, and
\* the receiver, having answered READY, is reading a small-file frame's data
C23_Witness ==
    /\ Cardinality(WroteOf("desc")) = 2
    /\ WroteOf("tok") # {}
    /\ c2rClosed
    /\ rWrote = <<"READY">>
    /\ rfile # NoFile

\* C24: the read of a frame that was written whole yields its whole body, of
\* exactly the announced length, however the transport splits the prefix and
\* the body; the read of a frame cut short by a close fails with an error.
C24_FrameReadComplete ==
    fr.pc = "done" =>
        IF fr.closed
        THEN fr.result = "error"
        ELSE /\ fr.result = "ok"
             /\ fr.size = fr.body
             /\ fr.payload = JsonObject(fr.body)

\* C25: while the small-file task is inside its writes (between a descriptor's
\* prefix and the last raw byte of the last file) the main task of the send is
\* not at a write of its own: the metadata frame went out before the task was
\* started and TRANSFER_COMPLETE waits for the joins.
C25_OneWriter ==
    sTask.pc \in {"desc", "data"} =>
        /\ spc = "stream"
        /\ ~TasksDone
        /\ sWrote # <<>> /\ sWrote[1] = "meta"
        /\ WroteOf("tok") = {}
\* the small-file task is in the middle of a file while every chunk task of a
\* large file has ended
C25_Witness ==
    /\ sTask.pc = "data"
    /\ sTask.sent > 0
    /\ ChunkKeys # {}
    /\ \A k \in ChunkKeys : cTask[k].pc = "done"

\* C26: after a small-file descriptor the sender writes exactly the announced
\* size, and after a chunk descriptor exactly end_byte - start_byte bytes, also
\* when the file's length at send time is not the recorded size.
C26_ExactByteCounts ==
    calc.pc = "sent" =>
        /\ calc.small_bytes = calc.size
        /\ \A x \in 1 .. calc.threads :
              calc.chunk_bytes[x] = calc.ranges[x][2] - calc.ranges[x][1]

\* C27: the step in which a chunk task fails (connect or I/O error) changes
\* nothing but that task: send_files, the small-file task and the sibling
\* chunk tasks go on as they were; a send fails with no task started only, and
\* a send that went through its joins finds every task at its own end.
C27_ChunkErrorIsolation ==
    /\ [][\A k \in ChunkKeys :
            (~cTask[k].err /\ cTask'[k].err) =>
                /\ spc' = spc
                /\ sTask' = sTask
                /\ sHistory' = sHistory
                /\ c2rClosed' = c2rClosed
                /\ \A j \in ChunkKeys \ {k} : cTask'[j] = cTask[j]]_vars
    /\ [](spc = "failed" => (sTask = NoTask /\ \A k \in ChunkKeys : cTask[k] = NoChunk))
    /\ [](spc = "done" => TasksDone)
\* a send that ended after one chunk task failed, while a sibling chunk task
\* sent its whole range and the small-file task sent its files
C27_Witness ==
    /\ spc = "done"
    /\ sTask.pc = "done"
    /\ \E k, j \in ChunkKeys :
          /\ cTask[k].err
          /\ ~cTask[j].err /\ cTask[j].remaining = 0

\* C28: when the handler of an accepted transfer has ended without having read
\* the completion marker and the chunk listeners of the transfer have stopped,
\* no partly written file of the transfer is left: no received small file
\* shorter than its announced size, no chunk file.
C28_CleanupOnFailure ==
    (rWrote = <<"READY">> /\ ReceiverAtRest /\ rHistory = <<>>) =>
        /\ \A n \in DOMAIN received_files :
              (Exists(received_files[n].path) /\ ~LaterSamePath(n)) =>
                  Len(disk[received_files[n].path]) = received_files[n].size
        /\ \A k \in ChunkKeys : ~cfile[k].linked

\* C29: every increment and every read of the progress counter of a transfer
\* is made by a task that holds the transfer's lock.
C29_LockDiscipline ==
    \A a \in lk.log : a.held

C31_ResponderSurvives ==
    /\ disc.pc # "none" => disc.down = {}
    /\ disc.pc # "none" => \A a \in disc.probes : ENABLED D_Answer(a)
    /\ disc.pc # "none" =>
         \A i, j \in DOMAIN disc.log :
            (/\ i < j
             /\ disc.log[i].at = disc.log[j].at
             /\ disc.log[i].type # "discover"
             /\ disc.log[j].type = "discover") => disc.log[j].out # <<>>
\* a responder that was handed bytes that are not JSON and then answered the
\* initiator's probe
C31_Witness ==
    /\ disc.pc # "none"
    /\ \E i, j \in DOMAIN disc.log :
          /\ i < j
          /\ disc.log[i].at = disc.log[j].at
          /\ disc.log[i].type = "garbage"
          /\ disc.log[j].type = "discover"
          /\ disc.log[j].src = InitiatorAddr
          /\ disc.log[j].out[1].msg \in disc.replies

\* C32: in every turn of the responder's loop, something is sent only when the
\* datagram is of type discover; for such a datagram exactly one message is
\* sent, an announce, to the address the datagram came from, and its status is
\* "receiving" exactly when is_receiving is set at that moment, "idle" otherwise.
C32_ResponderReply ==
    disc.pc # "none" =>
        \A i \in DOMAIN disc.log :
            LET e == disc.log[i]
            IN /\ e.out # <<>> => e.type = "discover"
               /\ e.type = "discover" =>
                    /\ Len(e.out) = 1
                    /\ e.out[1].to = e.src
                    /\ e.out[1].msg.type = "announce"
                    /\ e.out[1].msg.status = "receiving" <=> e.on
                    /\ e.out[1].msg.status = "idle" <=> ~e.on
\* a probe of another host answered while receiving, one of the initiator
\* answered while idle, and an object of another type left unanswered
C32_Witness ==
    /\ disc.pc # "none"
    /\ \E i, j, k \in DOMAIN disc.log :
          /\ disc.log[i].type = "discover" /\ disc.log[i].on
          /\ disc.log[i].src = StrayAddr
          /\ disc.log[j].type = "discover" /\ ~disc.log[j].on
          /\ disc.log[j].src = InitiatorAddr
          /\ disc.log[k].type = "other" /\ disc.log[k].out = <<>>

\* C33: the map of a discovery round has one entry for each address an
\* announce was received from and no other entry; the entry holds the name,
\* port and version of the last announce received from that address; and a
\* turn of the collection loop on a datagram that is not an announce leaves
\* the map as it was.
C33_InitiatorDedup ==
    /\ [](disc.pc # "none" =>
            /\ DOMAIN disc.discovered = DOMAIN disc.last
            /\ DOMAIN disc.discovered = { r.addr : r \in disc.got }
            /\ \A ip \in DOMAIN disc.discovered :
                  /\ disc.discovered[ip].name = disc.last[ip].name
                  /\ disc.discovered[ip].port = disc.last[ip].port
                  /\ disc.discovered[ip].version = disc.last[ip].version)
    /\ [][(/\ disc.pc = "collect"
           /\ \E r \in disc.replies :
                 r \notin disc'.replies /\ r.type # "announce")
          => disc'.discovered = disc.discovered]_vars
\* a round that ended after two different announces from one address, the
\* second of them not from the responder's own loop
C33_Witness ==
    /\ disc.pc = "shown"
    /\ disc.injected >= 1
    /\ \E r1, r2 \in disc.got :
          /\ r1.addr = r2.addr
          /\ r1.name # r2.name
          /\ disc.discovered[r1.addr].name = r2.name
          /\ r1 = Announce(r1.addr)


C36_ReceivedFilesCounter ==
    [][(/\ Len(rHistory') = Len(rHistory) + 1
        /\ rHistory'[Len(rHistory')].status = "Success")
       => rStats'.files = rStats.files + rmeta.total_files]_vars


C38_StartStop ==
    /\ [](svc.pc # "none" =>
            Cardinality({ i \in Starts : svc.thr[i] \in {"loop", "accept"} }) <= 1)
    /\ [](( /\ svc.pc # "none"
            /\ svc.stopped
            /\ ~svc.is_receiving
            /\ \A i \in Starts : svc.thr[i] \in {"none", "dead"})
          => \A i \in Starts : ~Listening(i))
    /\ [][(svc.pc # "none" /\ svc'.handlers > svc.handlers)
            => svc.is_receiving]_vars


\* C39: the step in which send_files fails (the connect raises, the wait for
\* the confirmation times out, the confirmation is not READY, or the
\* connection breaks before the completion marker is written) leaves
\* total_files_sent and total_bytes_sent as they were and adds exactly one
\* history record, a 'Send Failed' record of size 0; and a failed send has
\* counted nothing and left no other record.
C39_FailedSendStatistics ==
    /\ [][(spc' = "failed" /\ spc # "failed") =>
            /\ sStats' = sStats
            /\ Len(sHistory') = Len(sHistory) + 1
            /\ SubSeq(sHistory', 1, Len(sHistory)) = sHistory
            /\ sHistory'[Len(sHistory')].direction = "Send Failed"
            /\ sHistory'[Len(sHistory')].size = 0]_vars
    /\ [](spc = "failed" =>
            /\ sStats = [files |-> 0, bytes |-> 0]
            /\ Len(sHistory) = 1)
\* a send that failed on a confirmation other than READY, one whose connect
\* raised and one that timed out are all reached; this one is the first
C39_Witness ==
    /\ spc = "failed"
    /\ confirmation \notin {"none", "READY"}
    /\ sHistory # <<>>

====
